---------------------------- MODULE Spec2Model ----------------------------
(***************************************************************************)
(* Model of the painel-dcc dashboard: the pages' module-level data loads,  *)
(* their filter callbacks, their PDF callbacks and the browser session     *)
(* that drives them.                                                       *)
(*                                                                         *)
(* Text is modelled by TLA+ strings over a small alphabet; a data-frame is *)
(* a sequence of rows, a row a function from column name to cell.  Column  *)
(* names are written without diacritics.                                   *)
(***************************************************************************)
EXTENDS Integers, Sequences, FiniteSets, TLC

VARIABLES
    importados,          \* the page modules the process has imported
    planilha,            \* the spreadsheets as the export endpoint serves them now
    hoje,                \* the current date
    df_contratos_base,   \* contratos.py: module global, set at import
    df_status,           \* statusdoprocesso.py: module global, set at import
    df_portarias_base,   \* portarias_planejamento.py: module global, set at import
    lista_servidores_unicos, \* its attribute _lista_servidores_unicos
    df_limite_pdm_base,  \* fracionamento_pdm.py: module global, set at import
    df_extrato_base,     \* extrato_contrato.py: module global, set at import
    n_intervals,         \* app.py: ticks of dcc.Interval "interval-atualizacao"
    pathname,            \* app.py: dcc.Location "url"
    value,               \* the value of every filter input of the page shown
    data,                \* the data of every DataTable of the page shown
    store,               \* the data of the dcc.Store of the page shown
    options,             \* the options of filtro_pdm_dropdown_itajuba, if shown
    n_clicks,            \* the clicks of the PDF button of the page shown
    n_limpar,            \* the clicks of the button "Limpar filtros" of the page
    download,            \* the data of the dcc.Download of the page shown
    menu,                \* app.py: the children of the Div "sidebar-menu"
    moeda                \* extrato_contrato.py: a call of the money helpers

\* the frames loaded when the pages are imported
bases == <<importados, df_contratos_base, df_status, df_portarias_base,
           lista_servidores_unicos, df_limite_pdm_base, df_extrato_base>>

vars == <<planilha, hoje, bases, n_intervals,
          pathname, value, data, store, options, n_clicks, n_limpar, download,
          menu, moeda>>

(***************************************************************************)
(* Bounds of the model.                                                    *)
(***************************************************************************)
\* how many times one button is clicked during one visit of a page
MaxClicks == 1
\* how many ticks of the hourly timer a run of the model follows
MaxIntervals == 1
\* how many filter inputs of a page differ from their initial value at once
MaxFiltrosAtivos == 2
\* the days that pass while the process runs
MaxDias == 1
\* how many times "Limpar filtros" is clicked during one visit of a page
MaxLimpar == 1
\* the millions of reais of the largest amounts given to the money helpers
MaxMilhoes == 1
\* the rows and the movement groups of a sheet "Consulta BI" drawn at random
MaxLinhasCsv == 2
MaxGrupos == 2

(***************************************************************************)
(* Python and pandas values.                                               *)
(***************************************************************************)
\* Python's None (also JSON null)
None == "<None>"
\* a missing cell of an object or float column (float nan)
NaN == "<NaN>"
\* a missing cell of a "string" column (pd.NA)
NA == "<pd.NA>"

\* pd.isna(v)
IsNa(v) == v \in {None, NaN, NA}

\* str(v), and what Series.astype(str) makes of a cell
PyStr(v) ==
    IF v = None THEN "None"
    ELSE IF v = NaN THEN "nan"
    ELSE IF v = NA THEN "<NA>"
    ELSE v

\* the JSON encoding of a cell sent to the browser: nan and NA become null
Json(v) == IF IsNa(v) THEN None ELSE v

\* the truth value Python gives a cell or an input value: None and "" are
\* false, every other string is true, and so is float nan
Truthy(v) == v # None /\ v # ""

\* the optional values of the model: nothing, or one value
Nada == <<>>
Algum(x) == <<x>>

(***************************************************************************)
(* Strings.                                                                *)
(***************************************************************************)
Ch(s, i) == SubSeq(s, i, i)

LowerCh(c) ==
    CASE c = "A" -> "a" [] c = "B" -> "b" [] c = "C" -> "c" [] c = "D" -> "d"
      [] c = "E" -> "e" [] c = "F" -> "f" [] c = "G" -> "g" [] c = "H" -> "h"
      [] c = "I" -> "i" [] c = "J" -> "j" [] c = "K" -> "k" [] c = "L" -> "l"
      [] c = "M" -> "m" [] c = "N" -> "n" [] c = "O" -> "o" [] c = "P" -> "p"
      [] c = "Q" -> "q" [] c = "R" -> "r" [] c = "S" -> "s" [] c = "T" -> "t"
      [] c = "U" -> "u" [] c = "V" -> "v" [] c = "W" -> "w" [] c = "X" -> "x"
      [] c = "Y" -> "y" [] c = "Z" -> "z"
      [] OTHER -> c

\* str.lower()
RECURSIVE Lower(_)
Lower(s) ==
    IF s = "" THEN "" ELSE LowerCh(Ch(s, 1)) \o Lower(SubSeq(s, 2, Len(s)))

\* str.strip()
RECURSIVE LStrip(_)
LStrip(s) ==
    IF s # "" /\ Ch(s, 1) = " " THEN LStrip(SubSeq(s, 2, Len(s))) ELSE s

RECURSIVE RStrip(_)
RStrip(s) ==
    IF s # "" /\ Ch(s, Len(s)) = " " THEN RStrip(SubSeq(s, 1, Len(s) - 1)) ELSE s

Strip(s) == LStrip(RStrip(s))

\* str.startswith
StartsWith(s, p) == Len(s) >= Len(p) /\ SubSeq(s, 1, Len(p)) = p

\* `t in s`: t occurs in s as a literal substring
Contem(s, t) ==
    \E i \in 1..(Len(s) - Len(t) + 1) : SubSeq(s, i, i + Len(t) - 1) = t

(***************************************************************************)
(* Regular expressions, as far as the alphabet of the model goes: a        *)
(* letter, digit, space or "/" stands for itself, "." matches any          *)
(* character, and "(" opens a group, which nothing in the alphabet closes. *)
(***************************************************************************)
\* re.compile(p) raises re.error (missing ")")
ReError(p) == \E i \in 1..Len(p) : Ch(p, i) = "("

\* re.search(p, s) finds a match, for a pattern that compiles
ReSearch(p, s) ==
    \E i \in 1..(Len(s) - Len(p) + 1) :
        \A j \in 1..Len(p) : Ch(p, j) = "." \/ Ch(p, j) = Ch(s, i + j - 1)

\* one cell of Series.str.contains(pat, na=False) with the default regex=True
StrContains(cell, pat) == ~IsNa(cell) /\ ReSearch(pat, cell)

\* one cell of Series.str.contains(pat, case=False, na=False)
StrContainsNoCase(cell, pat) ==
    ~IsNa(cell) /\ ReSearch(Lower(pat), Lower(cell))

(***************************************************************************)
(* Sequences.                                                              *)
(***************************************************************************)
Range(f) == {f[x] : x \in DOMAIN f}

\* the rows of df that satisfy Test, in the order of df
Filtrar(df, Test(_)) == SelectSeq(df, Test)

\* [f(x) for x in seq]
Map(seq, F(_)) == [i \in 1..Len(seq) |-> F(seq[i])]


(***************************************************************************)
(* Dates.  A timestamp is a record [d, m, y]; NaT is the missing one.  The *)
(* years of the model are not leap years.                                  *)
(***************************************************************************)
NaT == [d |-> 0, m |-> 0, y |-> 0]

DigitVal(c) ==
    CASE c = "0" -> 0 [] c = "1" -> 1 [] c = "2" -> 2 [] c = "3" -> 3
      [] c = "4" -> 4 [] c = "5" -> 5 [] c = "6" -> 6 [] c = "7" -> 7
      [] c = "8" -> 8 [] c = "9" -> 9 [] OTHER -> -1

DigitStr(n) ==
    CASE n = 0 -> "0" [] n = 1 -> "1" [] n = 2 -> "2" [] n = 3 -> "3"
      [] n = 4 -> "4" [] n = 5 -> "5" [] n = 6 -> "6" [] n = 7 -> "7"
      [] n = 8 -> "8" [] n = 9 -> "9"

IsDigits(s) == s # "" /\ \A i \in 1..Len(s) : DigitVal(Ch(s, i)) >= 0

\* int(s) for a string of digits
RECURSIVE Num(_)
Num(s) ==
    IF s = "" THEN 0
    ELSE 10 * Num(SubSeq(s, 1, Len(s) - 1)) + DigitVal(Ch(s, Len(s)))

\* "%02d" and "%04d"
Dig2(n) == DigitStr(n \div 10) \o DigitStr(n % 10)
Dig4(n) == Dig2(n \div 100) \o Dig2(n % 100)

DiasNoMes(m) ==
    IF m = 2 THEN 28 ELSE IF m \in {4, 6, 9, 11} THEN 30 ELSE 31

DataValida(d, m, y) ==
    m \in 1..12 /\ d >= 1 /\ d <= DiasNoMes(m)

RECURSIVE DiasAntesDoMes(_)
DiasAntesDoMes(m) ==
    IF m <= 1 THEN 0 ELSE DiasAntesDoMes(m - 1) + DiasNoMes(m - 1)

\* date.toordinal(), up to a constant
Ordinal(t) == 365 * t.y + DiasAntesDoMes(t.m) + t.d

\* the three numbers of a text "nn/nn/nnnn", or <<>> when it has another shape
Campos(s) ==
    IF /\ Len(s) = 10
       /\ Ch(s, 3) = "/" /\ Ch(s, 6) = "/"
       /\ IsDigits(SubSeq(s, 1, 2)) /\ IsDigits(SubSeq(s, 4, 5))
       /\ IsDigits(SubSeq(s, 7, 10))
    THEN <<Num(SubSeq(s, 1, 2)), Num(SubSeq(s, 4, 5)), Num(SubSeq(s, 7, 10))>>
    ELSE <<>>

\* strptime(s, "%d/%m/%Y"), NaT when s does not match
ParseDMY(s) ==
    LET c == Campos(s) IN
    IF c # <<>> /\ DataValida(c[1], c[2], c[3])
    THEN [d |-> c[1], m |-> c[2], y |-> c[3]] ELSE NaT

\* strptime(s, "%m/%d/%Y"), NaT when s does not match
ParseMDY(s) ==
    LET c == Campos(s) IN
    IF c # <<>> /\ DataValida(c[2], c[1], c[3])
    THEN [d |-> c[2], m |-> c[1], y |-> c[3]] ELSE NaT

\* one cell of pd.to_datetime(col, dayfirst=True, errors="coerce"); the
\* cells of the model's spreadsheets are dd/mm/yyyy texts or missing
ToDatetimeDayFirst(cell) == IF IsNa(cell) THEN NaT ELSE ParseDMY(cell)

\* t + timedelta(days=1)
DiaSeguinte(t) ==
    IF t.d < DiasNoMes(t.m) THEN [t EXCEPT !.d = t.d + 1]
    ELSE IF t.m < 12 THEN [d |-> 1, m |-> t.m + 1, y |-> t.y]
    ELSE [d |-> 1, m |-> 1, y |-> t.y + 1]

\* Timestamp.strftime("%d/%m/%Y"); NaT gives a missing cell
Strftime(t) ==
    IF t = NaT THEN NaN ELSE Dig2(t.d) \o "/" \o Dig2(t.m) \o "/" \o Dig4(t.y)

\* str(Timestamp) of a midnight timestamp in a datetime column: ISO date
IsoStr(t) ==
    IF t = NaT THEN "NaT" ELSE Dig4(t.y) \o "-" \o Dig2(t.m) \o "-" \o Dig2(t.d)

\* pd.to_datetime of one ISO text "yyyy-mm-dd"; anything else is coerced
ParseIso(s) ==
    IF /\ Len(s) = 10 /\ Ch(s, 5) = "-" /\ Ch(s, 8) = "-"
       /\ IsDigits(SubSeq(s, 1, 4)) /\ IsDigits(SubSeq(s, 6, 7))
       /\ IsDigits(SubSeq(s, 9, 10))
       /\ DataValida(Num(SubSeq(s, 9, 10)), Num(SubSeq(s, 6, 7)),
                     Num(SubSeq(s, 1, 4)))
    THEN [d |-> Num(SubSeq(s, 9, 10)), m |-> Num(SubSeq(s, 6, 7)),
          y |-> Num(SubSeq(s, 1, 4))]
    ELSE NaT

(***************************************************************************)
(* pages/contratos.py                                                      *)
(***************************************************************************)
\* the columns of the sheet "Grupo da Cont." that the page reads
ColsCsvContratos ==
    {"Contrato", "Setor", "MENU Grupo", "Objeto", "Empresa Contratada",
     "Inicio da Vigencia", "Termino da Execucao", "Termino da Vigencia",
     "Comprasnet Contratos"}

\* df.rename(columns=...): the name a sheet column gets in the data-frame
RenomearContratos(c) ==
    CASE c = "MENU Grupo" -> "Grupo"
      [] c = "Comprasnet Contratos" -> "Link Comprasnet"
      [] OTHER -> c

ColsDatasContratos ==
    {"Inicio da Vigencia", "Termino da Execucao", "Termino da Vigencia"}

\* calcular_status(data_termino_exec), hoje being the day of the load
calcular_status(data_termino_exec, dia) ==
    IF data_termino_exec = NaT THEN ""
    ELSE LET dias == Ordinal(data_termino_exec) - Ordinal(dia) IN
         IF dias > 10 THEN "Vigente"
         ELSE IF dias < 0 THEN "Vencido"
         ELSE "Proximo do Vencimento"

\* carregar_dados_contratos(): csv is the sheet's content at the time of the
\* call, dia the value of datetime.now().date()
carregar_dados_contratos(csv, dia) ==
    [i \in 1..Len(csv) |->
        [c \in {RenomearContratos(k) : k \in ColsCsvContratos}
               \cup {"Status da Vigencia"} |->
            IF c = "Status da Vigencia"
            THEN calcular_status(
                     ToDatetimeDayFirst(csv[i]["Termino da Execucao"]), dia)
            ELSE IF c \in ColsDatasContratos
            THEN LET t == Strftime(ToDatetimeDayFirst(csv[i][c])) IN
                 IF IsNa(t) THEN "" ELSE t
            ELSE IF c = "Grupo" THEN csv[i]["MENU Grupo"]
            ELSE IF c = "Link Comprasnet" THEN csv[i]["Comprasnet Contratos"]
            ELSE csv[i][c]]]


\* a text filter of the contratos and portarias pages:
\*   if texto and str(texto).strip():
\*       termo = str(texto).strip().lower()
\*       dff = dff[dff[col].astype(str).str.lower().str.contains(termo, na=False)]
FiltroTextoAplicado(texto) == Truthy(texto) /\ Truthy(Strip(PyStr(texto)))

Termo(texto) == Lower(Strip(PyStr(texto)))

FiltroTexto(dff, col, texto) ==
    IF FiltroTextoAplicado(texto)
    THEN Filtrar(dff, LAMBDA r : StrContains(Lower(PyStr(r[col])), Termo(texto)))
    ELSE dff

\* a text filter makes the callback raise re.error
FiltroTextoErro(texto) == FiltroTextoAplicado(texto) /\ ReError(Termo(texto))

\* a single-select dropdown:  if sel: dff = dff[dff[col] == sel]
FiltroIgual(dff, col, sel) ==
    IF Truthy(sel) THEN Filtrar(dff, LAMBDA r : r[col] = sel) ELSE dff

\* atualizar_tabela_contratos: the frame dff after the eight filters
dff_contratos(v) ==
    LET d1 == FiltroTexto(df_contratos_base, "Contrato", v["filtro_contrato_texto"])
        d2 == FiltroIgual(d1, "Contrato", v["filtro_contrato_dropdown"])
        d3 == FiltroTexto(d2, "Setor", v["filtro_setor_texto_ct"])
        d4 == FiltroIgual(d3, "Setor", v["filtro_setor_dropdown_ct"])
        d5 == FiltroIgual(d4, "Grupo", v["filtro_grupo"])
        d6 == FiltroTexto(d5, "Empresa Contratada", v["filtro_empresa_texto"])
        d7 == FiltroIgual(d6, "Empresa Contratada", v["filtro_empresa"])
    IN  FiltroIgual(d7, "Status da Vigencia", v["filtro_status_vig"])

\* atualizar_tabela_contratos raises instead of returning
erro_contratos(v) ==
    \/ FiltroTextoErro(v["filtro_contrato_texto"])
    \/ FiltroTextoErro(v["filtro_setor_texto_ct"])
    \/ FiltroTextoErro(v["filtro_empresa_texto"])

\* mk_link(row)
mk_link(row) ==
    LET url == row["Link Comprasnet"]
        contrato == row["Contrato"]
    IN  IF ~IsNa(url) /\ Strip(url) # "" /\ ~IsNa(contrato)
        THEN "[" \o contrato \o "](" \o Strip(url) \o ")"
        ELSE IF contrato # None THEN PyStr(contrato) ELSE ""

ColsTabelaContratos ==
    <<"Contrato_markdown", "Setor", "Grupo", "Objeto", "Empresa Contratada",
      "Inicio da Vigencia", "Termino da Execucao", "Termino da Vigencia",
      "Status da Vigencia">>

\* dff[cols].to_dict("records"), as the browser receives it
tabela_contratos(v) ==
    Map(dff_contratos(v),
        LAMBDA r : [c \in Range(ColsTabelaContratos) |->
                       IF c = "Contrato_markdown" THEN mk_link(r) ELSE Json(r[c])])

\* the records of the whole base, whatever the filters
store_base_contratos(v) ==
    Map(df_contratos_base,
        LAMBDA r : [c \in DOMAIN r \cup {"Contrato_markdown"} |->
                       IF c = "Contrato_markdown" THEN mk_link(r) ELSE Json(r[c])])

\* dff.to_dict("records"), as the browser receives it
store_dados_contratos(v) ==
    Map(dff_contratos(v),
        LAMBDA r : [c \in DOMAIN r \cup {"Contrato_markdown"} |->
                       IF c = "Contrato_markdown" THEN mk_link(r) ELSE Json(r[c])])

ColsPdfContratos ==
    <<"Contrato", "Setor", "Grupo", "Objeto", "Empresa Contratada",
      "Inicio da Vigencia", "Termino da Execucao", "Termino da Vigencia",
      "Status da Vigencia">>

\* the rows of a PDF table whose cells are wrap(row[c]) = Paragraph(str(...))
LinhasPdf(df, cols) ==
    Map(df, LAMBDA r : [c \in Range(cols) |-> PyStr(r[c])])

\* gerar_pdf_contratos(n, dados_contratos): what the document holds
gerar_pdf_contratos(dados_contratos) ==
    [filename |-> "contratos_paisagem.pdf",
     total |-> Len(dados_contratos),
     header |-> ColsPdfContratos,
     linhas |-> LinhasPdf(dados_contratos, ColsPdfContratos)]


(***************************************************************************)
(* More on sequences.                                                      *)
(***************************************************************************)
\* the elements of seq at the indices in K, in the order of seq
SubSeqIdx(seq, K) ==
    [k \in 1..Cardinality(K) |->
        seq[CHOOSE i \in K : Cardinality({j \in K : j < i}) = k - 1]]

\* a stable sort: Antes(a, b) says that a sorts strictly before b; elements
\* that neither sort before the other keep the order they have in seq
SortStable(seq, Antes(_, _)) ==
    LET n == Len(seq)
        rank(i) == Cardinality({j \in 1..n :
                       \/ Antes(seq[j], seq[i])
                       \/ (~Antes(seq[i], seq[j]) /\ j < i)})
    IN  [k \in 1..n |-> seq[CHOOSE i \in 1..n : rank(i) = k - 1]]

\* pd.concat(frames, ignore_index=True)
RECURSIVE Concat(_)
Concat(frames) ==
    IF frames = <<>> THEN <<>> ELSE Head(frames) \o Concat(Tail(frames))

\* df.drop_duplicates(subset=[col], keep="first")
DropDuplicates(df, col) ==
    SubSeqIdx(df, {i \in 1..Len(df) : \A j \in 1..(i - 1) : df[j][col] # df[i][col]})

(***************************************************************************)
(* pages/statusdoprocesso.py                                               *)
(*                                                                         *)
(* A sheet read by pd.read_csv is a record: cols, the column names in the  *)
(* order of the file (pandas has already made repeated names unique with   *)
(* the suffixes .1, .2, ...), and linhas, the rows.                        *)
(***************************************************************************)
col_fixas ==
    <<"Linha", "Finalizado", "Processo", "Requisitante", "Objeto", "Modalidade",
      "Numero", "Valor inicial", "Nao concluido", "Entrada na DCC">>

ColsMov == <<"Data Mov", "E/S", "Depto", "Acao">>

\* df[c] after the loader has added every column it misses as None
Cel(csv, r, c) == IF c \in Range(csv.cols) THEN r[c] ELSE None

\* data_cols = [c for c in df.columns if c.startswith("Data Mov")]
data_cols(csv) ==
    SelectSeq(csv.cols \o (IF "Data Mov" \in Range(csv.cols) THEN <<>>
                           ELSE <<"Data Mov">>),
              LAMBDA c : StartsWith(c, "Data Mov"))

\* suf = col[len("Data Mov"):] of every data column but "Data Mov" itself,
\* after the empty suffix of grupo0
Sufixos(csv) ==
    <<"">> \o Map(SelectSeq(data_cols(csv), LAMBDA c : c # "Data Mov"),
                  LAMBDA c : SubSeq(c, Len("Data Mov") + 1, Len(c)))

\* the slip of taking every block's Acao from the first group
BlocoAcaoDoPrimeiroGrupo(csv, suf) ==
    Map(csv.linhas,
        LAMBDA r : [c \in Range(col_fixas) \cup Range(ColsMov) |->
                       IF c \in Range(col_fixas) THEN Cel(csv, r, c)
                       ELSE IF c = "Acao" THEN Cel(csv, r, c)
                       ELSE Cel(csv, r, c \o suf)])

\* bloco: the fixed columns and the four columns of suffix suf, renamed
Bloco(csv, suf) ==
    Map(csv.linhas,
        LAMBDA r : [c \in Range(col_fixas) \cup Range(ColsMov) |->
                       IF c \in Range(col_fixas) THEN Cel(csv, r, c)
                       ELSE Cel(csv, r, c \o suf)])

\* mask_nao_vazia: some cell of the row is neither missing nor ""
NaoVazia(row) == \E c \in DOMAIN row : ~IsNa(row[c]) /\ row[c] # ""

\* pd.to_numeric(cell, errors="coerce") of a text cell, for the whole numbers
\* of the model; NaN is the missing number
ToNumeric(cell) == IF ~IsNa(cell) /\ IsDigits(cell) THEN Num(cell) ELSE -1

\* the conversions of the loader, column by column
ConverterStatus(row) ==
    [c \in DOMAIN row |->
        IF c = "Linha" THEN PyStr(row[c])
        ELSE IF c = "Finalizado" THEN (IF IsNa(row[c]) THEN "" ELSE row[c])
        ELSE IF c \in {"Entrada na DCC", "Data Mov"}
             THEN ToDatetimeDayFirst(row[c])
        ELSE IF c = "Valor inicial"
             THEN (IF ToNumeric(row[c]) < 0 THEN NaN ELSE row[c])
        ELSE IF IsNa(row[c]) THEN NA ELSE row[c]]

\* carregar_dados_status()
carregar_dados_status(csv) ==
    LET tabela_unida == Concat(Map(Sufixos(csv), LAMBDA suf : Bloco(csv, suf)))
    IN  Map(Filtrar(tabela_unida, NaoVazia), ConverterStatus)

\* the text filter of the status page:
\*   dff[dff["Processo"].astype(str).str.contains(termo, case=False, na=False)]
FiltroTextoStatus(dff, col, texto) ==
    IF FiltroTextoAplicado(texto)
    THEN Filtrar(dff, LAMBDA r :
             StrContainsNoCase(PyStr(r[col]), Strip(PyStr(texto))))
    ELSE dff

\* dff.sort_values("Linha_ordenacao", ascending=False): the numeric lines
\* first, the greatest first; lines that are no number last
AntesLinha(a, b) ==
    /\ ToNumeric(a["Linha"]) >= 0
    /\ ToNumeric(b["Linha"]) < 0 \/ ToNumeric(a["Linha"]) > ToNumeric(b["Linha"])

\* atualizar_tabelas: dff after the five filters and the sort by Linha
dff_status(df, v) ==
    LET d1 == FiltroTextoStatus(df, "Processo", v["filtro_processo_texto"])
        d2 == FiltroIgual(d1, "Processo", v["filtro_processo"])
        d3 == FiltroIgual(d2, "Requisitante", v["filtro_requisitante"])
        d4 == FiltroIgual(d3, "Objeto", v["filtro_objeto"])
        d5 == FiltroIgual(d4, "Modalidade", v["filtro_modalidade"])
    IN  SortStable(d5, AntesLinha)

erro_status(v) ==
    /\ FiltroTextoAplicado(v["filtro_processo_texto"])
    /\ ReError(Strip(PyStr(v["filtro_processo_texto"])))

ColsEsq == <<"Processo", "Requisitante", "Objeto", "Modalidade", "Linha">>

\* dados_esquerda: one row for each process, the one of the greatest Linha
dados_esquerda(dff) ==
    LET dff_esq == DropDuplicates(
                       Filtrar(dff, LAMBDA r : Strip(PyStr(r["Processo"])) # ""),
                       "Processo")
    IN  Map(dff_esq, LAMBDA r : [c \in Range(ColsEsq) |-> Json(r[c])])

\* the text of an action says there is none
AcaoInvalida(acao) == acao = "" \/ Lower(acao) \in {"none", "nan", "<na>"}

\* Data Mov_dt sorts before: later dates first, NaT last, and within one date
\* "FIM DCC" (ordem_acao 0) before the other actions
AntesMov(a, b) ==
    \/ /\ a["Data Mov_dt"] # NaT
       /\ \/ b["Data Mov_dt"] = NaT
          \/ Ordinal(a["Data Mov_dt"]) > Ordinal(b["Data Mov_dt"])
    \/ /\ a["Data Mov_dt"] = b["Data Mov_dt"]
       /\ a["ordem_acao"] < b["ordem_acao"]

\* mask_linha_valida of the callback and of the PDF
LinhaValida(row) ==
    \E c \in Range(ColsMov) :
        Strip(PyStr(row[c])) \notin {"", "none", "nan", "<na>"}

\* atualizar_tabelas: dff_dir, the movements with an action, newest first
dff_dir(dff) ==
    LET textos == Map(dff, LAMBDA r :
            [c \in DOMAIN r \cup {"Data Mov_dt", "ordem_acao"} |->
                IF c = "Data Mov" THEN Strip(IsoStr(r["Data Mov"]))
                ELSE IF c \in {"E/S", "Acao", "Depto"} THEN Strip(PyStr(r[c]))
                ELSE IF c = "Data Mov_dt" THEN ParseIso(Strip(IsoStr(r["Data Mov"])))
                ELSE IF c = "ordem_acao"
                     THEN (IF Strip(PyStr(r["Acao"])) # "FIM DCC" THEN 1 ELSE 0)
                ELSE r[c]])
        validas == Filtrar(textos, LAMBDA r : ~AcaoInvalida(r["Acao"]))
        ordenadas == SortStable(validas, AntesMov)
        formatadas == Map(ordenadas, LAMBDA r :
            [r EXCEPT !["Data Mov"] =
                IF r["Data Mov_dt"] = NaT THEN "" ELSE Strftime(r["Data Mov_dt"])])
    IN  Filtrar(formatadas, LinhaValida)

dados_direita(dff) ==
    Map(dff_dir(dff), LAMBDA r : [c \in Range(ColsMov) |-> r[c]])

\* dff_dir.to_dict("records") as the browser stores it: the text columns, with
\* null for a missing cell (the timestamp and number columns of the frame
\* are not read again and are left out)
store_dados_status(dff) ==
    Map(dff_dir(dff), LAMBDA r :
        [c \in Range(ColsEsq) \cup Range(ColsMov) \cup {"ordem_acao"} |->
            IF c = "ordem_acao" THEN r[c] ELSE Json(r[c])])

\* pd.to_datetime(col, errors="coerce") of a column of dd/mm/yyyy texts, with
\* no dayfirst.  por_formato: the installed pandas parses every text with the
\* format guessed from the first text that is not empty (pandas 2); otherwise
\* it parses text by text, month first where that is a date (pandas 1).
ToDatetimeCol(col, por_formato) ==
    LET cheios == SelectSeq(col, LAMBDA c : ~IsNa(c) /\ c # "")
        mes_primeiro == cheios # <<>> /\ ParseMDY(cheios[1]) # NaT
    IN  [i \in 1..Len(col) |->
            IF IsNa(col[i]) THEN NaT
            ELSE IF por_formato
                 THEN (IF mes_primeiro THEN ParseMDY(col[i]) ELSE ParseDMY(col[i]))
            ELSE IF ParseMDY(col[i]) # NaT THEN ParseMDY(col[i])
            ELSE ParseDMY(col[i])]

\* the text of a PDF cell of the status report:
\*   str(row[c]).strip() if pd.notna(row[c]) else ""
CelPdfStatus(x) == IF IsNa(x) THEN "" ELSE Strip(PyStr(x))

\* gerar_pdf_status: df_esq, the rows of "DADOS DO PROCESSO"
pdf_df_esq(df_todos) ==
    LET unicos == DropDuplicates(df_todos, "Processo")
        textos == Map(unicos, LAMBDA r :
                      [r EXCEPT !["Processo"] = Strip(PyStr(r["Processo"]))])
    IN  Filtrar(textos, LAMBDA r :
            r["Processo"] # "" /\ Lower(r["Processo"]) # "nan")

\* gerar_pdf_status: df_dir_copy, the rows of "MOVIMENTACOES"
pdf_df_dir(df_todos, por_formato) ==
    LET df_dir == Filtrar(
            Map(df_todos, LAMBDA r : [r EXCEPT !["Acao"] = Strip(PyStr(r["Acao"]))]),
            LAMBDA r : ~AcaoInvalida(r["Acao"]))
        datas == ToDatetimeCol(Map(df_dir, LAMBDA r : r["Data Mov"]), por_formato)
        com_dt == [i \in 1..Len(df_dir) |->
            [c \in DOMAIN df_dir[i] \cup {"Data Mov_dt"} |->
                IF c = "Data Mov_dt" THEN datas[i]
                ELSE IF c = "ordem_acao"
                     THEN (IF Strip(PyStr(df_dir[i]["Acao"])) # "FIM DCC"
                           THEN 1 ELSE 0)
                ELSE df_dir[i][c]]]
        ordenadas == SortStable(com_dt, AntesMov)
        formatadas == Map(ordenadas, LAMBDA r :
            [r EXCEPT !["Data Mov"] =
                IF r["Data Mov_dt"] = NaT THEN "" ELSE Strftime(r["Data Mov_dt"])])
    IN  Filtrar(Filtrar(formatadas, LAMBDA r : ~AcaoInvalida(r["Acao"])),
                LinhaValida)

\* gerar_pdf_status(n, dados_status): what the document holds
gerar_pdf_status(dados_status, por_formato) ==
    [filename |-> "status_processos_paisagem.pdf",
     esquerda |-> Map(pdf_df_esq(dados_status), LAMBDA r :
                      [c \in Range(ColsEsq) |-> CelPdfStatus(r[c])]),
     direita |-> Map(pdf_df_dir(dados_status, por_formato), LAMBDA r :
                      [c \in Range(ColsMov) |-> CelPdfStatus(r[c])])]

(***************************************************************************)
(* pages/portarias_planejamento.py                                         *)
(***************************************************************************)
NOME_COL_LINK_ORIGINAL == "Link do documento Equipe de Planejamento"

tipos_validos ==
    <<"PORTARIA DE PLANEJAMENTO DA CONTRATACAO",
      "PORTARIA DE PLANEJAMENTO DA CONTRATACAO - TI">>

\* str(i) for the small numbers that name columns
IntStr(n) == IF n < 10 THEN DigitStr(n) ELSE DigitStr(n \div 10) \o DigitStr(n % 10)

\* cols_serv = [str(i) for i in range(1, 16) if str(i) in df.columns]
cols_serv(csv) ==
    SelectSeq([i \in 1..15 |-> IntStr(i)], LAMBDA c : c \in Range(csv.cols))

\* "; ".join(cells)
RECURSIVE Join(_)
Join(cells) ==
    IF cells = <<>> THEN ""
    ELSE IF Len(cells) = 1 THEN cells[1]
    ELSE cells[1] \o "; " \o Join(Tail(cells))

\* .str.replace(r"(; )+$", "", regex=True)
RECURSIVE SemSeparadoresFinais(_)
SemSeparadoresFinais(s) ==
    IF Len(s) >= 2 /\ SubSeq(s, Len(s) - 1, Len(s)) = "; "
    THEN SemSeparadoresFinais(SubSeq(s, 1, Len(s) - 2))
    ELSE s

\* df["Servidores"] of one row: the members joined, a missing one as "", the
\* trailing separators removed
Servidores(csv, r) ==
    IF cols_serv(csv) = <<>> THEN ""
    ELSE SemSeparadoresFinais(
             Join(Map(cols_serv(csv),
                      LAMBDA c : IF PyStr(r[c]) = "nan" THEN "" ELSE PyStr(r[c]))))

\* a row with any text at all in the column of the link
LinkPreenchido(r) == PyStr(r[NOME_COL_LINK_ORIGINAL]) # ""

\* .astype(str).str.strip().str.startswith("http")
LinkValido(r) == StartsWith(Strip(PyStr(r[NOME_COL_LINK_ORIGINAL])), "http")

\* df.rename(columns=...) of the loader
RenomearPortarias(c) ==
    CASE c = "Unnamed: 5" -> "Data"
      [] c = "N / ANO" -> "N/ANO da Portaria"
      [] c = "ORIGEM" -> "Setor de Origem"
      [] OTHER -> c

\* carregar_dados_portarias(): the frame
carregar_dados_portarias(csv) ==
    LET com_servidores == Map(csv.linhas, LAMBDA r :
            [c \in {RenomearPortarias(k) : k \in Range(csv.cols)}
                   \cup {"Servidores", "TIPO", NOME_COL_LINK_ORIGINAL} |->
                IF c = "Servidores" THEN Servidores(csv, r)
                ELSE IF c = "Data" THEN r["Unnamed: 5"]
                ELSE IF c = "N/ANO da Portaria" THEN r["N / ANO"]
                ELSE IF c = "Setor de Origem" THEN r["ORIGEM"]
                ELSE IF c \in Range(csv.cols) THEN r[c]
                ELSE ""])
        do_tipo == Filtrar(com_servidores,
                           LAMBDA r : r["TIPO"] \in Range(tipos_validos))
    IN  Filtrar(do_tipo, LinkValido)

\* carregar_dados_portarias(): df._lista_servidores_unicos, the names in the
\* member columns of the frame (the options of filtro_servidor_dropdown_planej;
\* their alphabetical order is left out)
servidores_unicos(csv, df) ==
    {df[i][c] : i \in 1..Len(df), c \in Range(cols_serv(csv))}
        \ {None, NaN, NA, "", " "}

\* atualizar_tabela_portarias_planej: dff after every filter
dff_portarias(df, v) ==
    LET tipo_sel == v["filtro_tipo_planej"]
        servidor_drop == v["filtro_servidor_dropdown_planej"]
        d1 == IF Truthy(tipo_sel) /\ tipo_sel # "TODOS"
              THEN Filtrar(df, LAMBDA r : r["TIPO"] = tipo_sel) ELSE df
        d2 == FiltroTexto(d1, "Setor de Origem", v["filtro_setor_texto_planej"])
        d3 == FiltroIgual(d2, "Setor de Origem", v["filtro_setor_dropdown_planej"])
        d4 == FiltroTexto(d3, "Servidores", v["filtro_servidor_texto_planej"])
        d5 == IF Truthy(servidor_drop)
              THEN Filtrar(d4, LAMBDA r :
                       StrContains(Lower(PyStr(r["Servidores"])),
                                   Lower(Strip(PyStr(servidor_drop)))))
              ELSE d4
    IN  Filtrar(d5, LinkValido)

\* atualizar_tabela_portarias_planej raises re.error
erro_portarias(v) ==
    \/ FiltroTextoErro(v["filtro_setor_texto_planej"])
    \/ FiltroTextoErro(v["filtro_servidor_texto_planej"])
    \/ /\ Truthy(v["filtro_servidor_dropdown_planej"])
       /\ ReError(Lower(Strip(PyStr(v["filtro_servidor_dropdown_planej"]))))

\* formatar_link(url)
formatar_link(url) ==
    IF ~IsNa(url) /\ url # None /\ Strip(url) # ""
    THEN "[Link](" \o Strip(url) \o ")" ELSE ""

ColsTabelaPortarias ==
    <<"Data", "N/ANO da Portaria", "Setor de Origem", "Servidores", "TIPO",
      "Link_markdown">>

\* dff_display[cols_tabela].to_dict("records")
tabela_portarias(df, v) ==
    Map(dff_portarias(df, v),
        LAMBDA r : [c \in Range(ColsTabelaPortarias) |->
                       IF c = "Link_markdown"
                       THEN formatar_link(r[NOME_COL_LINK_ORIGINAL])
                       ELSE Json(r[c])])

\* the records of the whole base, whatever the filters
store_base_portarias(df, v) ==
    Map(df, LAMBDA r : [c \in DOMAIN r |-> Json(r[c])])

\* dff.to_dict("records"), as the browser receives it
store_dados_portarias(df, v) ==
    Map(dff_portarias(df, v), LAMBDA r : [c \in DOMAIN r |-> Json(r[c])])

ColsPdfPortarias ==
    <<"Data", "N/ANO da Portaria", "Setor de Origem", "Servidores", "TIPO",
      NOME_COL_LINK_ORIGINAL>>

\* gerar_pdf_port_planej(n, dados_port): what the document holds
gerar_pdf_port_planej(dados_port) ==
    [filename |-> "portarias_planejamento_paisagem.pdf",
     total |-> Len(dados_port),
     header |-> ColsPdfPortarias,
     linhas |-> LinhasPdf(dados_port, ColsPdfPortarias)]

(***************************************************************************)
(* Amounts of money.  A float of the program is an optional number of      *)
(* cents: Nada is nan, Algum(c) is c / 100.  The sheets of the model carry  *)
(* at most two decimals.                                                   *)
(***************************************************************************)
\* str(n) of a natural number
RECURSIVE NatStr(_)
NatStr(n) == IF n < 10 THEN DigitStr(n) ELSE NatStr(n \div 10) \o DigitStr(n % 10)

\* the digits of f"{n:,}" with "." as the thousands separator
RECURSIVE Milhar(_)
Milhar(n) ==
    IF n < 1000 THEN NatStr(n)
    ELSE Milhar(n \div 1000) \o "." \o DigitStr((n % 1000) \div 100)
             \o Dig2(n % 100)

\* "R$ " + f"{v:,.2f}" with "," and "." exchanged; "" for nan
fmt_moeda(v) ==
    IF v = Nada THEN ""
    ELSE LET c == v[1]
             a == IF c < 0 THEN -c ELSE c
         IN  "R$ " \o (IF c < 0 THEN "-" ELSE "") \o Milhar(a \div 100)
                  \o "," \o Dig2(a % 100)

\* the same function, defined again inside the PDF callback
fmt_moeda_pdf(v) ==
    IF v = Nada THEN ""
    ELSE LET c == v[1]
             a == IF c < 0 THEN -c ELSE c
         IN  "R$ " \o (IF c < 0 THEN "-" ELSE "") \o Milhar(a \div 100)
                  \o "," \o Dig2(a % 100)

\* s with every occurrence of the character c removed
RECURSIVE SemChar(_, _)
SemChar(s, c) ==
    IF s = "" THEN ""
    ELSE (IF Ch(s, 1) = c THEN "" ELSE Ch(s, 1)) \o SemChar(SubSeq(s, 2, Len(s)), c)

\* s with every occurrence of the character c replaced by d
RECURSIVE TrocaChar(_, _, _)
TrocaChar(s, c, d) ==
    IF s = "" THEN ""
    ELSE (IF Ch(s, 1) = c THEN d ELSE Ch(s, 1))
             \o TrocaChar(SubSeq(s, 2, Len(s)), c, d)

\* the position of the first c in s, 0 when there is none
IndexOf(s, c) ==
    IF \E i \in 1..Len(s) : Ch(s, i) = c
    THEN CHOOSE i \in 1..Len(s) : Ch(s, i) = c /\ \A j \in 1..(i - 1) : Ch(s, j) # c
    ELSE 0

\* the float a text denotes (float(s), pd.to_numeric): an optional sign,
\* digits, and optionally a point and digits; Nada when s is no number
ParseFloat(s) ==
    LET neg == s # "" /\ Ch(s, 1) = "-"
        u == IF neg THEN SubSeq(s, 2, Len(s)) ELSE s
        p == IndexOf(u, ".")
        int == IF p = 0 THEN u ELSE SubSeq(u, 1, p - 1)
        frac == IF p = 0 THEN "" ELSE SubSeq(u, p + 1, Len(u))
        f2 == SubSeq(frac \o "00", 1, 2)
    IN  IF int \o frac # "" /\ IsDigits(int \o frac \o "0")
        THEN Algum((IF neg THEN -1 ELSE 1)
                       * ((IF int = "" THEN 0 ELSE Num(int)) * 100 + Num(f2)))
        ELSE Nada

(***************************************************************************)
(* pages/fracionamento_pdm.py                                              *)
(***************************************************************************)
COL_PDM == "PDM"

\* .str.replace(r"\.0$", "", regex=True)
SemPontoZero(s) ==
    IF Len(s) >= 2 /\ SubSeq(s, Len(s) - 1, Len(s)) = ".0"
    THEN SubSeq(s, 1, Len(s) - 2) ELSE s

\* .str.replace(r"\D", "", regex=True)
RECURSIVE SoDigitos(_)
SoDigitos(s) ==
    IF s = "" THEN ""
    ELSE (IF IsDigits(Ch(s, 1)) THEN Ch(s, 1) ELSE "")
             \o SoDigitos(SubSeq(s, 2, Len(s)))

\* .str.zfill(5)
RECURSIVE ZFill5(_)
ZFill5(s) == IF Len(s) >= 5 THEN s ELSE ZFill5("0" \o s)

\* the PDM column after the loader normalised it
NormalizarPdm(cell) == ZFill5(SoDigitos(SemPontoZero(PyStr(cell))))

\* the column "Valor Empenhado" the loader builds from "Unnamed: 7"
ValorEmpenhado(cell) == ParseFloat(TrocaChar(SemChar(PyStr(cell), "."), ",", "."))

\* valor_limite = 65492.11, in cents
valor_limite == 6549211

\* a balance that stops at zero
SaldoNaoNegativo(limite, empenhado) ==
    IF empenhado = Nada THEN Nada
    ELSE Algum(IF empenhado[1] > limite THEN 0 ELSE limite - empenhado[1])

\* df["Limite da Dispensa"] - df["Valor Empenhado"]
Saldo(limite, empenhado) ==
    IF empenhado = Nada THEN Nada ELSE Algum(limite - empenhado[1])

\* carregar_dados_limite_pdm(): the frame
carregar_dados_limite_pdm(csv) ==
    Map(csv.linhas, LAMBDA r :
        [c \in {"PDM", "Descricao", "Unnamed: 7", "Valor Empenhado",
                "Limite da Dispensa", "Saldo para contratacao"} |->
            CASE c = "PDM" ->
                    IF "PDM" \in Range(csv.cols) THEN NormalizarPdm(r["PDM"])
                    ELSE NormalizarPdm("")
              [] c = "Descricao" ->
                    IF "Descricao.1" \in Range(csv.cols) THEN r["Descricao.1"]
                    ELSE ""
              [] c = "Unnamed: 7" -> r["Unnamed: 7"]
              [] c = "Valor Empenhado" -> ValorEmpenhado(r["Unnamed: 7"])
              [] c = "Limite da Dispensa" -> Algum(valor_limite)
              [] c = "Saldo para contratacao" ->
                    Saldo(valor_limite, ValorEmpenhado(r["Unnamed: 7"]))])

\* carregar_dados_limite_pdm(): df._lista_pdms_unicos (PDMS_UNICOS), the
\* options of filtro_pdm_dropdown_itajuba, as a set; PDMS_UNICOS sorts them
pdms_unicos(df) == {df[i]["PDM"] : i \in 1..Len(df)} \ {"", " "}

\* a < b for two texts of digits, as Python compares str
MenorTexto(a, b) ==
    \E k \in 1..Len(b) :
        /\ k <= Len(a) + 1
        /\ SubSeq(a, 1, k - 1) = SubSeq(b, 1, k - 1)
        /\ k = Len(a) + 1 \/ DigitVal(Ch(a, k)) < DigitVal(Ch(b, k))

\* sorted(S) for a collection S of distinct texts of digits
sorted(S) ==
    [k \in 1..Cardinality(S) |->
        CHOOSE x \in S : Cardinality({y \in S : MenorTexto(y, x)}) = k - 1]

\* PDMS_UNICOS = getattr(df_limite_pdm_base, "_lista_pdms_unicos", [])
PDMS_UNICOS == sorted(pdms_unicos(df_limite_pdm_base))

\* the PDMs of the value of the multi-select dropdown
Escolhidos(valores_selecionados) ==
    IF valores_selecionados = Nada THEN {} ELSE Range(valores_selecionados[1])

\* the options without the PDMs already selected
opcoes_so_do_texto(pdm_texto, valores_selecionados) ==
    LET base == PDMS_UNICOS IN
    IF ~Truthy(pdm_texto) \/ Strip(pdm_texto) = ""
    THEN base
    ELSE sorted({c \in Range(base) : Contem(Lower(c), Lower(Strip(pdm_texto)))})

\* atualizar_opcoes_pdm: the values of the options it returns, in order
atualizar_opcoes_pdm(pdm_texto, valores_selecionados) ==
    LET base == PDMS_UNICOS IN
    IF ~Truthy(pdm_texto) \/ Strip(pdm_texto) = ""
    THEN base
    ELSE LET termo == Lower(Strip(pdm_texto))
             filtradas == {c \in Range(base) : Contem(Lower(c), termo)}
         IN  sorted(filtradas \cup (Escolhidos(valores_selecionados) \cap Range(base)))

\* the options of the dropdown in the layout of page p, which the first run
\* of atualizar_opcoes_pdm (no text yet) sets again
OpcoesIniciais(p) ==
    IF p = "/fracionamento_pdm" THEN atualizar_opcoes_pdm(None, Algum(<<>>)) ELSE <<>>

\* `if pdm_lista:` for the value of the multi-select dropdown, which is None
\* (Nada) or a list (Algum(list))
ListaEscolhida(pdm_lista) == pdm_lista # Nada /\ pdm_lista[1] # <<>>

\* atualizar_tabela_limite_itajuba_pdm: dff after both filters
dff_limite_pdm(df, v) ==
    LET pdm_lista == v["filtro_pdm_dropdown_itajuba"]
        d1 == FiltroTexto(df, "PDM", v["filtro_pdm_texto_itajuba"])
    IN  IF ListaEscolhida(pdm_lista)
        THEN Filtrar(d1, LAMBDA r : r["PDM"] \in Range(pdm_lista[1]))
        ELSE d1

\* atualizar_tabela_limite_itajuba_pdm raises re.error
erro_limite_pdm(v) == FiltroTextoErro(v["filtro_pdm_texto_itajuba"])

ColsMoedaPdm == {"Valor Empenhado", "Limite da Dispensa", "Saldo para contratacao"}

\* dff_display[cols_tabela_display].to_dict("records")
tabela_limite_pdm(df, v) ==
    Map(dff_limite_pdm(df, v), LAMBDA r :
        [c \in {"PDM", "Descricao", "Valor Empenhado_fmt",
                "Limite da Dispensa_fmt", "Saldo para contratacao_fmt"} |->
            CASE c = "PDM" -> r["PDM"]
              [] c = "Descricao" -> Json(r["Descricao"])
              [] c = "Valor Empenhado_fmt" -> fmt_moeda(r["Valor Empenhado"])
              [] c = "Limite da Dispensa_fmt" -> fmt_moeda(r["Limite da Dispensa"])
              [] c = "Saldo para contratacao_fmt" ->
                    fmt_moeda(r["Saldo para contratacao"])])

\* dff.to_dict("records"), as the browser receives it
store_dados_limite_pdm(df, v) ==
    Map(dff_limite_pdm(df, v), LAMBDA r :
        [c \in DOMAIN r |-> IF c \in ColsMoedaPdm THEN r[c] ELSE Json(r[c])])

ColsPdfPdm ==
    <<"PDM", "Descricao", "Valor Empenhado", "Limite da Dispensa",
      "Saldo para contratacao">>

\* gerar_pdf_limite_itajuba_pdm(n, dados): what the document holds
gerar_pdf_limite_itajuba_pdm(dados) ==
    [filename |-> "limite_gasto_itajuba_pdm.pdf",
     total |-> Len(dados),
     header |-> ColsPdfPdm,
     linhas |-> Map(dados, LAMBDA r :
        [c \in Range(ColsPdfPdm) |->
            IF c \in ColsMoedaPdm THEN fmt_moeda_pdf(r[c]) ELSE PyStr(r[c])])]

(***************************************************************************)
(* pages/extrato_contrato.py                                               *)
(***************************************************************************)
\* s.replace(t, "") for a text t of three characters or fewer
RECURSIVE RemoveAll(_, _)
RemoveAll(s, t) ==
    IF Len(s) < Len(t) THEN s
    ELSE IF SubSeq(s, 1, Len(t)) = t THEN RemoveAll(SubSeq(s, Len(t) + 1, Len(s)), t)
    ELSE Ch(s, 1) \o RemoveAll(SubSeq(s, 2, Len(s)), t)

\* a conversion that keeps the thousands separators
conv_moeda_com_milhar(v) ==
    IF v = None \/ IsNa(v) THEN Nada
    ELSE LET s == Strip(v) IN
         IF s \in {"", "-"} THEN Nada
         ELSE ParseFloat(TrocaChar(SemChar(RemoveAll(s, "R$"), " "), ",", "."))

\* conv_moeda_br(v): None and nan both become Nada
conv_moeda_br(v) ==
    IF v = None \/ IsNa(v) THEN Nada
    ELSE LET s == Strip(v) IN
         IF s \in {"", "-"} THEN Nada
         ELSE ParseFloat(TrocaChar(SemChar(SemChar(RemoveAll(s, "R$"), " "), "."),
                                   ",", "."))

\* formatar_moeda(v)
formatar_moeda(v) ==
    IF v = Nada THEN ""
    ELSE LET c == v[1]
             a == IF c < 0 THEN -c ELSE c
         IN  "R$ " \o (IF c < 0 THEN "-" ELSE "") \o Milhar(a \div 100)
                  \o "," \o Dig2(a % 100)

\* the texts formatar_fiscalizacao_para_html puts in the cell: <<>> for "",
\* else <<fiscalizacao, servidor>>; the markup around them is left out
formatar_fiscalizacao_para_html(fiscalizacao, servidor) ==
    IF ~Truthy(fiscalizacao) /\ ~Truthy(servidor) THEN <<>>
    ELSE LET f == Strip(RemoveAll(
                     IF Truthy(fiscalizacao) THEN Strip(PyStr(fiscalizacao)) ELSE "",
                     "nan"))
             s == Strip(RemoveAll(
                     IF Truthy(servidor) THEN Strip(PyStr(servidor)) ELSE "", "nan"))
         IN  IF f = "" /\ s = "" THEN <<>> ELSE <<f, s>>

\* the texts formatar_fiscalizacao_para_pdf puts in the Paragraph
formatar_fiscalizacao_para_pdf(fiscalizacao, servidor) ==
    IF ~Truthy(fiscalizacao) /\ ~Truthy(servidor) THEN <<>>
    ELSE LET f == Strip(RemoveAll(
                     IF Truthy(fiscalizacao) THEN Strip(PyStr(fiscalizacao)) ELSE "",
                     "nan"))
             s == Strip(RemoveAll(
                     IF Truthy(servidor) THEN Strip(PyStr(servidor)) ELSE "", "nan"))
         IN  IF f = "" /\ s = "" THEN <<>> ELSE <<f, s>>

base_cols ==
    <<"Contrato", "Processo", "Modalidade", "Vigencia - de", "Vigencia - ate",
      "Prazo", "Contratada", "CNPJ", "Objeto", "Comprasnet", "Valor original",
      "Acresc/Supressoes", "Valor atualizado", "Tipo de garantia", "Instituicao",
      "Vigencia contrato", "Vigencia + 90 dias", "Vigencia contratada",
      "Base de calculo", "Percentual", "Cobertura", "Valor contratado",
      "Valor inicial">>

cols_moeda ==
    {"Valor original", "Acresc/Supressoes", "Valor atualizado", "Base de calculo",
     "Cobertura", "Valor contratado", "Valor inicial"}

cols_texto ==
    {"Contrato", "Processo", "Modalidade", "Prazo", "Contratada", "CNPJ",
     "Objeto", "Comprasnet", "Tipo de garantia", "Instituicao"}

cols_data ==
    {"Vigencia - de", "Vigencia - ate", "Vigencia contrato",
     "Vigencia + 90 dias", "Vigencia contratada"}

\* suf = "" if i == 0 else f".{i}"
Suf(i) == IF i = 0 THEN "" ELSE "." \o IntStr(i)

\* the columns "Valor", "Valor Atualizado" and "Vigencia" of range(0, 13)
ColsValorDinamico ==
    {"Valor" \o Suf(i) : i \in 0..12} \cup {"Valor Atualizado" \o Suf(i) : i \in 0..12}
ColsVigDinamico == {"Vigencia" \o Suf(i) : i \in 0..12}

\* .astype("string") of one cell
AsString(v) == IF v = None \/ IsNa(v) THEN NA ELSE v

\* carregar_dados_extrato(): the frame
carregar_dados_extrato(csv) ==
    Map(csv.linhas, LAMBDA r :
        [c \in Range(csv.cols) \cup Range(base_cols) |->
            LET raw == IF c \in Range(csv.cols) THEN r[c] ELSE None IN
            IF c \in cols_moeda \cup ColsValorDinamico THEN conv_moeda_br(raw)
            ELSE IF c \in cols_texto \cup cols_data \cup ColsVigDinamico
            THEN AsString(raw)
            ELSE raw])

cols_contrato_info ==
    <<"Processo", "Modalidade", "Vigencia - de", "Vigencia - ate", "Prazo",
      "Contratada", "CNPJ">>
cols_contrato_valores == <<"Valor original", "Acresc/Supressoes", "Valor atualizado">>
cols_garantia ==
    <<"Tipo de garantia", "Instituicao", "Vigencia contrato", "Vigencia + 90 dias",
      "Vigencia contratada", "Base de calculo", "Percentual", "Cobertura",
      "Valor contratado">>

\* gerar_grupo_fiscalizacao_otimizado(df_local, indice), for the first row of
\* df_local; a column the frame lacks is a column of None
gerar_grupo_fiscalizacao_otimizado(row, indice) ==
    LET col_fisc == IF indice = 0 THEN "Fiscalizacao"
                    ELSE "Fiscalizacao." \o IntStr(indice)
        col_serv == IF indice = 0 THEN "Servidor"
                    ELSE "Servidor." \o IntStr(indice * 2)
        col_fisc_subst == IF indice = 0 THEN "Fiscalizacao - subst."
                          ELSE "Fiscalizacao - subst.." \o IntStr(indice)
        col_serv_subst == IF indice = 0 THEN "Servidor.1"
                          ELSE "Servidor." \o IntStr(indice * 2 + 1)
        Col(c) == IF c \in DOMAIN row THEN row[c] ELSE None
    IN  [fiscalizacao_titular |-> Col(col_fisc),
         servidor_titular |-> Col(col_serv),
         fiscalizacao_substituto |-> Col(col_fisc_subst),
         servidor_substituto |-> Col(col_serv_subst)]

\* the rows of the base whose Contrato matches the text of the filter
dff_extrato(df, contrato) ==
    Filtrar(df, LAMBDA r :
        StrContainsNoCase(PyStr(r["Contrato"]), Strip(PyStr(contrato))))

\* the callbacks of the page raise re.error
erro_extrato(contrato) == Truthy(contrato) /\ ReError(Strip(PyStr(contrato)))

\* the teams of range(10) with a true value in one of their four cells
EquipeComDados(d) ==
    \/ Truthy(d.fiscalizacao_titular) \/ Truthy(d.servidor_titular)
    \/ Truthy(d.fiscalizacao_substituto) \/ Truthy(d.servidor_substituto)

equipes_dados(row) ==
    SelectSeq([i \in 1..10 |-> gerar_grupo_fiscalizacao_otimizado(row, i - 1)],
              EquipeComDados)

ColsEvolucao == {"Alteracao", "Tipo", "Vigencia", "Valor", "Valor Atualizado"}

\* the values of alteration n, but with the type of the first alteration
LinhaAlteracaoTipoDaPrimeira(row, n) ==
    LET alt_col == IntStr(n) \o "a Alteracao"
        Col(c, falta) == IF c \in DOMAIN row THEN row[c] ELSE falta
    IN  [c \in {"Alteracao", "Tipo", "Vigencia", "Valor", "Valor Atualizado"} |->
            CASE c = "Alteracao" ->
                    IF alt_col \in DOMAIN row /\ ~IsNa(row[alt_col])
                    THEN row[alt_col] ELSE ""
              [] c = "Tipo" -> Col("Tipo", "")
              [] c = "Vigencia" -> Col("Vigencia" \o Suf(n - 1), "")
              [] c = "Valor" -> Col("Valor" \o Suf(n - 1), Nada)
              [] c = "Valor Atualizado" -> Col("Valor Atualizado" \o Suf(n - 1), Nada)]

\* the values of alteration n (alteracoes[n - 1]) in the row; the money of a
\* column the frame lacks is Nada, which formatar_moeda prints like ""
LinhaAlteracao(row, n) ==
    LET alt_col == IntStr(n) \o "a Alteracao"
        Col(c, falta) == IF c \in DOMAIN row THEN row[c] ELSE falta
    IN  [c \in ColsEvolucao |->
            CASE c = "Alteracao" ->
                    IF alt_col \in DOMAIN row /\ ~IsNa(row[alt_col])
                    THEN row[alt_col] ELSE ""
              [] c = "Tipo" -> Col("Tipo" \o Suf(n - 1), "")
              [] c = "Vigencia" -> Col("Vigencia" \o Suf(n - 1), "")
              [] c = "Valor" -> Col("Valor" \o Suf(n - 1), Nada)
              [] c = "Valor Atualizado" -> Col("Valor Atualizado" \o Suf(n - 1), Nada)]

\* pd.notna(x) and str(x).strip() != "" for a text cell
TemTexto(x) == ~IsNa(x) /\ x # None /\ Strip(x) # ""

has_data(alt) ==
    \/ TemTexto(alt["Alteracao"]) \/ TemTexto(alt["Tipo"]) \/ TemTexto(alt["Vigencia"])
    \/ alt["Valor"] # Nada \/ alt["Valor Atualizado"] # Nada

lista_evol(row) == SelectSeq([n \in 1..12 |-> LinhaAlteracao(row, n)], has_data)

SaidasExtrato ==
    {"tabela_extrato_info", "tabela_extrato_objeto", "tabela_extrato_valores",
     "tabela_extrato_fiscalizacao", "tabela_extrato_fiscalizacao.columns",
     "tabela_extrato_garantia", "tabela_extrato_evolucao",
     "tabela_extrato_comprasnet", "valor_numero_contrato"}

\* atualizar_tabelas_extrato_cb(contrato): the nine outputs.  A row of the
\* fiscalizacao table is the sequence of its cells Equipe_0, Equipe_1, ...
atualizar_tabelas_extrato_cb(df, contrato) ==
    IF ~Truthy(contrato) \/ dff_extrato(df, contrato) = <<>>
    THEN [o \in SaidasExtrato |-> IF o = "valor_numero_contrato" THEN "" ELSE <<>>]
    ELSE LET row == dff_extrato(df, contrato)[1]
             eq == equipes_dados(row)
         IN  [o \in SaidasExtrato |->
            CASE o = "tabela_extrato_info" ->
                    << [c \in Range(cols_contrato_info) |-> Json(row[c])] >>
              [] o = "tabela_extrato_objeto" ->
                    << [c \in {"Objeto"} |-> Json(row[c])] >>
              [] o = "tabela_extrato_valores" ->
                    << [c \in Range(cols_contrato_valores) |-> formatar_moeda(row[c])] >>
              [] o = "tabela_extrato_fiscalizacao" ->
                    IF eq = <<>> THEN <<>>
                    ELSE << [k \in 1..Len(eq) |->
                                formatar_fiscalizacao_para_html(
                                    eq[k].fiscalizacao_titular, eq[k].servidor_titular)],
                            [k \in 1..Len(eq) |->
                                formatar_fiscalizacao_para_html(
                                    eq[k].fiscalizacao_substituto,
                                    eq[k].servidor_substituto)] >>
              [] o = "tabela_extrato_fiscalizacao.columns" ->
                    [k \in 1..Len(eq) |-> "Equipe_" \o IntStr(k - 1)]
              [] o = "tabela_extrato_garantia" ->
                    << [c \in Range(cols_garantia) |->
                           IF c \in {"Base de calculo", "Cobertura", "Valor contratado"}
                           THEN formatar_moeda(row[c]) ELSE Json(row[c])] >>
              [] o = "tabela_extrato_evolucao" ->
                    Map(lista_evol(row), LAMBDA alt :
                        [c \in {"Alteracao", "Tipo", "Vigencia", "Valor_fmt",
                                "Valor Atualizado_fmt"} |->
                            CASE c = "Valor_fmt" -> formatar_moeda(alt["Valor"])
                              [] c = "Valor Atualizado_fmt" ->
                                    formatar_moeda(alt["Valor Atualizado"])
                              [] OTHER -> Json(alt[c])])
              [] o = "tabela_extrato_comprasnet" ->
                    << [c \in {"Comprasnet_link"} |->
                           IF ~IsNa(row["Comprasnet"]) /\ Strip(row["Comprasnet"]) # ""
                           THEN "[" \o row["Comprasnet"] \o "](" \o row["Comprasnet"] \o ")"
                           ELSE ""] >>
              [] o = "valor_numero_contrato" -> PyStr(row["Contrato"])]

\* download_relatorio_pdf raises: re.error from the filter, or TypeError from
\* `if comprasnet_url` in gerar_pdf_relatorio_extrato when the cell is pd.NA
erro_pdf_extrato(df, filtro_contrato) ==
    \/ erro_extrato(filtro_contrato)
    \/ /\ Truthy(filtro_contrato)
       /\ dff_extrato(df, filtro_contrato) # <<>>
       /\ dff_extrato(df, filtro_contrato)[1]["Comprasnet"] = NA

\* wrap_data(text): the text of the Paragraph
wrap_data(text) ==
    IF IsNa(text) \/ text = None \/ Strip(text) = "" THEN "" ELSE text

\* download_relatorio_pdf(n_clicks, filtro_contrato) with gerar_pdf_relatorio_extrato:
\* what the document holds, Nada for dash.no_update
download_relatorio_pdf(df, filtro_contrato) ==
    IF ~Truthy(filtro_contrato) \/ dff_extrato(df, filtro_contrato) = <<>> THEN Nada
    ELSE LET row == dff_extrato(df, filtro_contrato)[1]
             num_contrato == row["Contrato"]
             equipes_dados_pdf == equipes_dados(row)
         IN  Algum(
            [filename |-> "Extrato_" \o PyStr(num_contrato) \o ".pdf",
             num_contrato |-> PyStr(num_contrato),
             info |-> [c \in Range(cols_contrato_info) |-> wrap_data(row[c])],
             valores |-> [c \in Range(cols_contrato_valores) |->
                             wrap_data(formatar_moeda(row[c]))],
             objeto |-> wrap_data(row["Objeto"]),
             comprasnet |-> wrap_data(row["Comprasnet"]),
             fiscalizacao |->
                IF equipes_dados_pdf = <<>> THEN <<>>
                ELSE << [k \in 1..Len(equipes_dados_pdf) |->
                            formatar_fiscalizacao_para_pdf(
                                equipes_dados_pdf[k].fiscalizacao_titular,
                                equipes_dados_pdf[k].servidor_titular)],
                        [k \in 1..Len(equipes_dados_pdf) |->
                            formatar_fiscalizacao_para_pdf(
                                equipes_dados_pdf[k].fiscalizacao_substituto,
                                equipes_dados_pdf[k].servidor_substituto)] >>,
             garantia |-> [c \in Range(cols_garantia) |->
                             IF c \in {"Base de calculo", "Cobertura", "Valor contratado"}
                             THEN wrap_data(formatar_moeda(row[c]))
                             ELSE wrap_data(row[c])],
             evolucao |->
                Map(lista_evol(row), LAMBDA alt :
                    [c \in ColsEvolucao |->
                        IF c \in {"Valor", "Valor Atualizado"}
                        THEN wrap_data(formatar_moeda(alt[c]))
                        ELSE wrap_data(alt[c])])])

(***************************************************************************)
(* The spreadsheets.  Each sheet has the content the service serves when   *)
(* the process starts and the content it serves after an edit.             *)
(***************************************************************************)
HojeInicial == [d |-> 2, m |-> 11, y |-> 2026]

LinhaContratos(contrato, setor, grupo, objeto, empresa, inicio, texec, tvig, link) ==
    [c \in ColsCsvContratos |->
        CASE c = "Contrato" -> contrato
          [] c = "Setor" -> setor
          [] c = "MENU Grupo" -> grupo
          [] c = "Objeto" -> objeto
          [] c = "Empresa Contratada" -> empresa
          [] c = "Inicio da Vigencia" -> inicio
          [] c = "Termino da Execucao" -> texec
          [] c = "Termino da Vigencia" -> tvig
          [] c = "Comprasnet Contratos" -> link]

SheetContratos ==
    << LinhaContratos("A1", "DCC", "G1", "Obra", "Alfa",
                      "01/01/2026", "20/12/2026", "20/12/2026", "http://a1"),
       LinhaContratos("A2", "DTI", "G1", "Rede", "Beta",
                      "05/03/2026", "02/11/2026", "10/02/2027", NaN),
       LinhaContratos("B1", "DCC", "G2", "Site", "Alfa",
                      "07/08/2026", "01/11/2026", "01/11/2026", " "),
       LinhaContratos("B2", NaN, NaN, NaN, NaN, NaN, NaN, NaN, NaN) >>

\* the sheet after an edit: a contract was added and one was extended
SheetContratosEditada ==
    << LinhaContratos("A1", "DCC", "G1", "Obra", "Alfa",
                      "01/01/2026", "20/12/2026", "20/12/2026", "http://a1"),
       LinhaContratos("A2", "DTI", "G1", "Rede", "Beta",
                      "05/03/2026", "10/12/2026", "10/02/2027", NaN),
       LinhaContratos("C1", "DTI", "G2", "Obra", "Gama",
                      "02/11/2026", "02/11/2027", "02/11/2027", NaN) >>

ColsCsvStatus ==
    <<"Linha", "Processo", "Requisitante", "Objeto", "Modalidade",
      "Data Mov", "E/S", "Depto", "Acao",
      "Data Mov.1", "E/S.1", "Depto.1", "Acao.1">>

\* a row of the sheet "Consulta BI": the process and two movements, each
\* <<Data Mov, E/S, Depto, Acao>>
LinhaStatus(linha, processo, requisitante, objeto, modalidade, mov0, mov1) ==
    [c \in Range(ColsCsvStatus) |->
        CASE c = "Linha" -> linha
          [] c = "Processo" -> processo
          [] c = "Requisitante" -> requisitante
          [] c = "Objeto" -> objeto
          [] c = "Modalidade" -> modalidade
          [] c = "Data Mov" -> mov0[1] [] c = "E/S" -> mov0[2]
          [] c = "Depto" -> mov0[3] [] c = "Acao" -> mov0[4]
          [] c = "Data Mov.1" -> mov1[1] [] c = "E/S.1" -> mov1[2]
          [] c = "Depto.1" -> mov1[3] [] c = "Acao.1" -> mov1[4]]

SemMov == <<NaN, NaN, NaN, NaN>>

SheetStatus ==
    [cols |-> ColsCsvStatus,
     linhas |->
        << LinhaStatus("1", "P1", "DCC", "Obra", "Pregao",
                       <<"05/03/2026", "E", "DCC", "Abertura">>,
                       <<"25/03/2026", "S", "DTI", "FIM DCC">>),
           LinhaStatus("2", "P2", "DTI", "Rede", "Dispensa", SemMov, SemMov),
           LinhaStatus("3", "P3", "DCC", "Site", "Pregao",
                       <<"10/04/2026", "E", "DCC", "Analise">>, SemMov) >>]

\* the sheet after an edit: process P2 got its first movement
SheetStatusEditada ==
    [cols |-> ColsCsvStatus,
     linhas |->
        << LinhaStatus("1", "P1", "DCC", "Obra", "Pregao",
                       <<"05/03/2026", "E", "DCC", "Abertura">>,
                       <<"25/03/2026", "S", "DTI", "FIM DCC">>),
           LinhaStatus("2", "P2", "DTI", "Rede", "Dispensa",
                       <<"02/11/2026", "E", "DCC", "Abertura">>, SemMov),
           LinhaStatus("3", "P3", "DCC", "Site", "Pregao",
                       <<"10/04/2026", "E", "DCC", "Analise">>, SemMov) >>]

ColsCsvPortarias ==
    <<"Unnamed: 5", "N / ANO", "ORIGEM", "TIPO", "1", "2",
      NOME_COL_LINK_ORIGINAL>>

LinhaPortaria(dia, numero, origem, tipo, membro1, membro2, link) ==
    [c \in Range(ColsCsvPortarias) |->
        CASE c = "Unnamed: 5" -> dia
          [] c = "N / ANO" -> numero
          [] c = "ORIGEM" -> origem
          [] c = "TIPO" -> tipo
          [] c = "1" -> membro1
          [] c = "2" -> membro2
          [] c = NOME_COL_LINK_ORIGINAL -> link]

SheetPortarias ==
    [cols |-> ColsCsvPortarias,
     linhas |->
        << LinhaPortaria("02/03/2026", "1/2026", "DCC", tipos_validos[1],
                         "Ana", "Bia", "http://p1"),
           LinhaPortaria("09/03/2026", "2/2026", "DTI", tipos_validos[2],
                         "Mariana", NaN, " http://p2"),
           LinhaPortaria("10/03/2026", "3/2026", "DCC", "PORTARIA DE FISCALIZACAO",
                         "Ana", NaN, "http://p3"),
           LinhaPortaria("11/03/2026", "4/2026", "DCC", tipos_validos[1],
                         "Caio", NaN, NaN),
           LinhaPortaria("12/03/2026", "5/2026", NaN, tipos_validos[1],
                         NaN, "Ana Lu", "http://p5") >>]

\* the sheet after an edit: portaria 4/2026 got its link
SheetPortariasEditada ==
    [cols |-> ColsCsvPortarias,
     linhas |->
        << LinhaPortaria("02/03/2026", "1/2026", "DCC", tipos_validos[1],
                         "Ana", "Bia", "http://p1"),
           LinhaPortaria("11/03/2026", "4/2026", "DCC", tipos_validos[1],
                         "Caio", NaN, "http://p4") >>]

ColsCsvPdm == <<"PDM", "Descricao.1", "Unnamed: 7">>

LinhaPdm(pdm, descricao, empenhado) ==
    [c \in Range(ColsCsvPdm) |->
        CASE c = "PDM" -> pdm
          [] c = "Descricao.1" -> descricao
          [] c = "Unnamed: 7" -> empenhado]

SheetPdm ==
    [cols |-> ColsCsvPdm,
     linhas |->
        << LinhaPdm("1234.0", "Papel", "1.000,50"),
           LinhaPdm("56789.0", "Toner", "70.000,00"),
           LinhaPdm("12.0", "Cabo", NaN),
           LinhaPdm(NaN, NaN, "10,00"),
           LinhaPdm("123456.0", "Tinta", "0,99") >>]

\* the sheet after an edit: more was committed to PDM 1234
SheetPdmEditada ==
    [cols |-> ColsCsvPdm,
     linhas |->
        << LinhaPdm("1234", "Papel", "2.000,50"),
           LinhaPdm("56789", "Toner", "70.000,00") >>]

ColsCsvExtrato ==
    <<"Contrato", "Processo", "Objeto", "Comprasnet", "Valor original",
      "Fiscalizacao", "Servidor", "Fiscalizacao - subst.", "Servidor.1",
      "Fiscalizacao.1", "Servidor.2", "Fiscalizacao - subst..1", "Servidor.3",
      "1a Alteracao", "Tipo", "Vigencia", "Valor", "Valor Atualizado",
      "2a Alteracao", "Tipo.1", "Vigencia.1", "Valor.1", "Valor Atualizado.1">>

\* a row of the sheet "BI Extrato": the contract <<Contrato, Processo, Objeto,
\* Comprasnet, Valor original>>, two teams and two alterations
LinhaExtrato(contrato, equipe0, equipe1, alt1, alt2) ==
    LET celulas == contrato \o equipe0 \o equipe1 \o alt1 \o alt2 IN
    [c \in Range(ColsCsvExtrato) |->
        celulas[CHOOSE k \in 1..Len(ColsCsvExtrato) : ColsCsvExtrato[k] = c]]

SemEquipe == <<NaN, NaN, NaN, NaN>>
SemAlteracao == <<NaN, NaN, NaN, NaN, NaN>>

SheetExtrato ==
    [cols |-> ColsCsvExtrato,
     linhas |->
        << LinhaExtrato(<<"A1/26", "P1", "Obra", "http://c1", "R$ 1.000,00">>,
                        <<"Gestor", "Ana", "Gestor Subst", "Bia">>, SemEquipe,
                        <<"1 TA", "Prazo", "01/02/2026", "R$ 100,00", "R$ 1.100,00">>,
                        SemAlteracao),
           LinhaExtrato(<<"A12/26", "P2", "Rede", "http://c2", "-">>,
                        SemEquipe, <<"Fiscal", "Fernanda", NaN, "Caio">>,
                        SemAlteracao,
                        <<NaN, "Valor", NaN, "-", "R$ 5,50">>),
           LinhaExtrato(<<NaN, "P3", "Site", NaN, NaN>>,
                        SemEquipe, SemEquipe, SemAlteracao, SemAlteracao) >>]

\* the sheet after an edit: contract A1/26 got a second alteration
SheetExtratoEditada ==
    [cols |-> ColsCsvExtrato,
     linhas |->
        << LinhaExtrato(<<"A1/26", "P1", "Obra", "http://c1", "R$ 1.000,00">>,
                        <<"Gestor", "Ana", "Gestor Subst", "Bia">>, SemEquipe,
                        <<"1 TA", "Prazo", "01/02/2026", "R$ 100,00", "R$ 1.100,00">>,
                        <<"2 TA", "Valor", NaN, "R$ 50,00", "R$ 1.150,00">>) >>]

Sheets == {"Grupo da Cont.", "Consulta BI", "Check List",
           "Limite de Gasto - Itajuba", "BI Extrato"}

PlanilhaInicial ==
    [sheet \in Sheets |->
        CASE sheet = "Grupo da Cont." -> SheetContratos
          [] sheet = "Consulta BI" -> SheetStatus
          [] sheet = "Check List" -> SheetPortarias
          [] sheet = "Limite de Gasto - Itajuba" -> SheetPdm
          [] sheet = "BI Extrato" -> SheetExtrato]

PlanilhaEditada ==
    [sheet \in Sheets |->
        CASE sheet = "Grupo da Cont." -> SheetContratosEditada
          [] sheet = "Consulta BI" -> SheetStatusEditada
          [] sheet = "Check List" -> SheetPortariasEditada
          [] sheet = "Limite de Gasto - Itajuba" -> SheetPdmEditada
          [] sheet = "BI Extrato" -> SheetExtratoEditada]

(***************************************************************************)
(* The layouts: the inputs of each page, their initial values, and the     *)
(* values the user of the model types or selects.                          *)
(***************************************************************************)
Paginas ==
    {"/contratos", "/statusdoprocesso", "/portarias_planejamento",
     "/fracionamento_pdm", "/extrato-contrato"}

\* the values of one column of a frame, missing ones dropped (the options of
\* a dropdown built from the base frame)
Unicos(df, col) == {df[i][col] : i \in 1..Len(df)} \ {None, NaN, NA}

FiltrosDaPagina(p) ==
    CASE p = "/contratos" ->
            {"filtro_contrato_texto", "filtro_contrato_dropdown",
             "filtro_setor_texto_ct", "filtro_setor_dropdown_ct", "filtro_grupo",
             "filtro_empresa_texto", "filtro_empresa", "filtro_status_vig"}
      [] p = "/statusdoprocesso" ->
            {"filtro_processo_texto", "filtro_processo", "filtro_requisitante",
             "filtro_objeto", "filtro_modalidade"}
      [] p = "/portarias_planejamento" ->
            {"filtro_setor_texto_planej", "filtro_setor_dropdown_planej",
             "filtro_servidor_texto_planej", "filtro_servidor_dropdown_planej",
             "filtro_tipo_planej"}
      [] p = "/fracionamento_pdm" ->
            {"filtro_pdm_texto_itajuba", "filtro_pdm_dropdown_itajuba"}
      [] p = "/extrato-contrato" -> {"filtro_contrato_extrato"}
      [] OTHER -> {}

\* value=... in the layout (None where the layout gives none)
ValorInicial(id) ==
    CASE id = "filtro_tipo_planej" -> "TODOS"
      [] id = "filtro_pdm_dropdown_itajuba" -> Algum(<<>>)
      [] OTHER -> None

\* what the user types into a text input or picks in a dropdown; a dropdown
\* offers the options the layout built from the base frame, and None (cleared)
Escolhas(id) ==
    CASE id = "filtro_contrato_texto" -> {None, "a", " A1 ", ".", "("}
      [] id = "filtro_contrato_dropdown" ->
            {None} \cup ({"A2"} \cap Unicos(df_contratos_base, "Contrato"))
      [] id = "filtro_setor_texto_ct" -> {None, "dc", "  ", "n"}
      [] id = "filtro_setor_dropdown_ct" ->
            {None} \cup ({"DCC"} \cap Unicos(df_contratos_base, "Setor"))
      [] id = "filtro_grupo" ->
            {None} \cup ({"G1"} \cap Unicos(df_contratos_base, "Grupo"))
      [] id = "filtro_empresa_texto" -> {None, "ALFA", "(a"}
      [] id = "filtro_empresa" ->
            {None} \cup ({"Alfa"} \cap Unicos(df_contratos_base, "Empresa Contratada"))
      [] id = "filtro_status_vig" -> {None, "Vigente", "Vencido"}
      [] id = "filtro_processo_texto" -> {None, "p1", " P ", "(", "na"}
      [] id = "filtro_processo" ->
            {None} \cup ({"P1"} \cap Unicos(df_status, "Processo"))
      [] id = "filtro_requisitante" ->
            {None} \cup ({"DCC"} \cap Unicos(df_status, "Requisitante"))
      [] id = "filtro_objeto" ->
            {None} \cup ({"Obra"} \cap Unicos(df_status, "Objeto"))
      [] id = "filtro_modalidade" ->
            {None} \cup ({"Pregao"} \cap Unicos(df_status, "Modalidade"))
      [] id = "filtro_setor_texto_planej" -> {None, "dc", "(", "n"}
      [] id = "filtro_setor_dropdown_planej" ->
            {None} \cup ({"DCC"} \cap Unicos(df_portarias_base, "Setor de Origem"))
      [] id = "filtro_servidor_texto_planej" -> {None, "ANA", " ; "}
      [] id = "filtro_servidor_dropdown_planej" ->
            {None} \cup ({"Ana", "Bia"} \cap lista_servidores_unicos)
      [] id = "filtro_tipo_planej" -> {"TODOS"} \cup Range(tipos_validos)
      [] id = "filtro_pdm_texto_itajuba" -> {None, "12", " 0 ", ".", "("}
      [] id = "filtro_pdm_dropdown_itajuba" ->
            {Nada} \cup {Algum(l) : l \in {<<>>, <<"01234">>, <<"56789", "00012">>}}
      [] id = "filtro_contrato_extrato" ->
            {None, "", "a1", " A12 ", "(", "  ", "x9", "na", "1.", "26"}

(***************************************************************************)
(* The callbacks of the page shown.                                        *)
(***************************************************************************)
\* the filter callback of page p raises
ErroFiltro(p, v) ==
    CASE p = "/contratos" -> erro_contratos(v)
      [] p = "/statusdoprocesso" -> erro_status(v)
      [] p = "/portarias_planejamento" -> erro_portarias(v)
      [] p = "/fracionamento_pdm" -> erro_limite_pdm(v)
      [] p = "/extrato-contrato" -> erro_extrato(v["filtro_contrato_extrato"])
      [] OTHER -> FALSE

\* the table data the filter callback of page p returns
DataFiltro(p, v) ==
    CASE p = "/contratos" -> [t \in {"tabela_contratos"} |-> tabela_contratos(v)]
      [] p = "/statusdoprocesso" ->
            [t \in {"tabela_status_esquerda", "tabela_status_direita"} |->
                IF t = "tabela_status_esquerda"
                THEN dados_esquerda(dff_status(df_status, v))
                ELSE dados_direita(dff_status(df_status, v))]
      [] p = "/portarias_planejamento" ->
            [t \in {"tabela_portarias_planej"} |->
                tabela_portarias(df_portarias_base, v)]
      [] p = "/fracionamento_pdm" ->
            [t \in {"tabela_limite_itajuba_pdm"} |->
                tabela_limite_pdm(df_limite_pdm_base, v)]
      [] p = "/extrato-contrato" ->
            atualizar_tabelas_extrato_cb(df_extrato_base, v["filtro_contrato_extrato"])
      [] OTHER -> <<>>

\* the store data the filter callback of page p returns
StoreFiltro(p, v) ==
    CASE p = "/contratos" -> Algum(store_dados_contratos(v))
      [] p = "/statusdoprocesso" ->
            Algum(store_dados_status(dff_status(df_status, v)))
      [] p = "/portarias_planejamento" ->
            Algum(store_dados_portarias(df_portarias_base, v))
      [] p = "/fracionamento_pdm" ->
            Algum(store_dados_limite_pdm(df_limite_pdm_base, v))
      [] OTHER -> Nada

\* `not dados`: the store is None or an empty list
StoreVazio(st) == st = Nada \/ st[1] = <<>>

\* the PDF callback of page p raises, or returns dash.no_update: the
\* download keeps its data
PdfSemSaida(p, v) ==
    /\ p = "/extrato-contrato"
    /\ \/ erro_pdf_extrato(df_extrato_base, v["filtro_contrato_extrato"])
       \/ download_relatorio_pdf(df_extrato_base, v["filtro_contrato_extrato"]) = Nada

\* what the PDF callback of page p returns for a click: Nada for None
Pdf(p, v, st, por_formato) ==
    IF p = "/extrato-contrato"
    THEN download_relatorio_pdf(df_extrato_base, v["filtro_contrato_extrato"])
    ELSE IF StoreVazio(st) THEN Nada
    ELSE CASE p = "/contratos" -> Algum(gerar_pdf_contratos(st[1]))
           [] p = "/statusdoprocesso" ->
                 LET pdf == gerar_pdf_status(st[1], por_formato) IN
                 IF pdf.esquerda = <<>> /\ pdf.direita = <<>> THEN Nada
                 ELSE Algum(pdf)
           [] p = "/portarias_planejamento" -> Algum(gerar_pdf_port_planej(st[1]))
           [] p = "/fracionamento_pdm" ->
                 Algum(gerar_pdf_limite_itajuba_pdm(st[1]))
           [] OTHER -> Nada

\* `not n`: the click count is None or 0 (Nada is None, Algum(k) is k)
SemClique(n) == n = Nada \/ n = Algum(0)

\* the PDF callback of page p, called with click count n, raises
ErroPdf(p, n, v) ==
    /\ ~SemClique(n)
    /\ p = "/extrato-contrato"
    /\ erro_pdf_extrato(df_extrato_base, v["filtro_contrato_extrato"])

\* what the PDF callback of page p returns when called with click count n:
\* `if not n or not dados: return None` comes first in every one
RetornoPdf(p, n, v, st, por_formato) ==
    IF SemClique(n) THEN Nada ELSE Pdf(p, v, st, por_formato)

(***************************************************************************)
(* The session.                                                            *)
(***************************************************************************)
Modulos ==
    {"contratos", "statusdoprocesso", "portarias_planejamento",
     "fracionamento_pdm", "extrato_contrato"}

\* app.py: menu_links
menu_links ==
    << [label |-> "Passagens DCF", href |-> "/passagens-dcf"],
       [label |-> "Pagamentos Efetivados", href |-> "/pagamentos"],
       [label |-> "Dotacao Atualizada", href |-> "/dotacao"],
       [label |-> "Execucao Orcamento UNIFEI", href |-> "/execucao-orcamento-unifei"],
       [label |-> "Naturezas Despesa", href |-> "/natureza-despesa-2024"],
       [label |-> "Execucao TED", href |-> "/execucao-ted"] >>

\* app.py: atualizar_menu(pathname), the dcc.Link items it returns
atualizar_menu(caminho) ==
    [i \in 1..Len(menu_links) |->
        [label |-> menu_links[i].label,
         href |-> menu_links[i].href,
         className |-> IF caminho = menu_links[i].href
                       THEN "sidebar-button sidebar-button-active"
                       ELSE "sidebar-button"]]

\* the paths registered with dash.register_page
PaginasRegistradas == Paginas \cup {"/atas"}

\* the paths the browser of the model opens: the registered pages, the
\* links of the menu, and the root
Caminhos == PaginasRegistradas \cup {menu_links[i].href : i \in 1..Len(menu_links)} \cup {"/"}

\* no call of the money helpers yet
SemChamada ==
    [de |-> "", fase |-> "nenhuma", v |-> Nada, texto |-> "", volta |-> Nada]

\* the process has started: Dash has imported every page module, and each
\* has loaded its sheet
Init ==
    /\ planilha = PlanilhaInicial
    /\ importados = Modulos
    /\ hoje = HojeInicial
    /\ df_contratos_base = carregar_dados_contratos(planilha["Grupo da Cont."], hoje)
    /\ df_status = carregar_dados_status(planilha["Consulta BI"])
    /\ df_portarias_base = carregar_dados_portarias(planilha["Check List"])
    /\ lista_servidores_unicos =
          servidores_unicos(planilha["Check List"], df_portarias_base)
    /\ df_limite_pdm_base =
          carregar_dados_limite_pdm(planilha["Limite de Gasto - Itajuba"])
    /\ df_extrato_base = carregar_dados_extrato(planilha["BI Extrato"])
    /\ n_intervals = 0
    /\ pathname = "/"
    /\ value = <<>>
    /\ data = <<>>
    /\ store = Nada
    /\ options = <<>>
    /\ n_clicks = 0
    /\ n_limpar = 0
    /\ download = Nada
    /\ menu = atualizar_menu(pathname)
    /\ moeda = SemChamada

\* the browser opens page p: the layout is rendered with its initial values
\* and every callback without prevent_initial_call runs once
Navegar(p) ==
    /\ p # pathname
    /\ pathname' = p
    /\ value' = [id \in FiltrosDaPagina(p) |-> ValorInicial(id)]
    /\ data' = DataFiltro(p, value')
    /\ store' = StoreFiltro(p, value')
    /\ options' = OpcoesIniciais(p)
    /\ n_clicks' = 0
    /\ n_limpar' = 0
    /\ download' = Nada
    /\ menu' = atualizar_menu(p)
    /\ UNCHANGED <<planilha, hoje, bases, n_intervals, moeda>>

\* the user changes one filter input; the filter callback runs with the
\* current values of all inputs, and its outputs are set unless it raised
AlterarFiltro(id, x) ==
    /\ id \in FiltrosDaPagina(pathname)
    /\ x \in Escolhas(id)
    /\ x # value[id]
    /\ id = "filtro_pdm_dropdown_itajuba" => Escolhidos(x) \subseteq Range(options)
    /\ value' = [value EXCEPT ![id] = x]
    /\ options' = IF id = "filtro_pdm_texto_itajuba"
                  THEN atualizar_opcoes_pdm(x, value["filtro_pdm_dropdown_itajuba"])
                  ELSE options
    /\ Cardinality({i \in DOMAIN value' : value'[i] # ValorInicial(i)})
          <= MaxFiltrosAtivos
    /\ IF ErroFiltro(pathname, value')
       THEN UNCHANGED <<data, store>>
       ELSE /\ data' = DataFiltro(pathname, value')
            /\ store' = StoreFiltro(pathname, value')
    /\ UNCHANGED <<planilha, hoje, bases, n_intervals, pathname, n_clicks,
                   n_limpar, download,
                   menu, moeda>>

\* the user clicks "Baixar Relatorio PDF"; por_formato is the way the
\* installed pandas parses date texts (see ToDatetimeCol)
BaixarPdf(por_formato) ==
    /\ pathname \in Paginas
    /\ n_clicks < MaxClicks
    /\ n_clicks' = n_clicks + 1
    /\ IF PdfSemSaida(pathname, value)
       THEN UNCHANGED download
       ELSE download' = RetornoPdf(pathname, Algum(n_clicks'), value, store,
                                   por_formato)
    /\ UNCHANGED <<planilha, hoje, bases, n_intervals, pathname, value, data,
                   store, options, n_limpar,
                   menu, moeda>>

\* a callback that leaves the type of portaria on its second option
ValorLimpoSemTipo(id) ==
    CASE id = "filtro_tipo_planej" -> tipos_validos[2]
      [] id = "filtro_pdm_dropdown_itajuba" -> Algum(<<>>)
      [] id = "filtro_contrato_extrato" -> ""
      [] OTHER -> None

\* what the callback "limpar filtros" of the page returns for input id
ValorLimpo(id) ==
    CASE id = "filtro_tipo_planej" -> "TODOS"
      [] id = "filtro_pdm_dropdown_itajuba" -> Algum(<<>>)
      [] id = "filtro_contrato_extrato" -> ""
      [] OTHER -> None

\* the user clicks "Limpar filtros": the callback sets every filter input of
\* the page, and the filter callback runs with the new values
LimparFiltros ==
    /\ pathname \in Paginas
    /\ n_limpar < MaxLimpar
    /\ n_limpar' = n_limpar + 1
    /\ value' = [id \in FiltrosDaPagina(pathname) |-> ValorLimpo(id)]
    /\ options' = IF pathname = "/fracionamento_pdm"
                  THEN atualizar_opcoes_pdm(value'["filtro_pdm_texto_itajuba"],
                                            value["filtro_pdm_dropdown_itajuba"])
                  ELSE options
    /\ IF ErroFiltro(pathname, value')
       THEN UNCHANGED <<data, store>>
       ELSE /\ data' = DataFiltro(pathname, value')
            /\ store' = StoreFiltro(pathname, value')
    /\ UNCHANGED <<planilha, hoje, bases, n_intervals, pathname, n_clicks,
                   download,
                   menu, moeda>>

\* app.py: dcc.Interval "interval-atualizacao" fires; no callback has it as
\* an Input
Tick ==
    /\ n_intervals < MaxIntervals
    /\ n_intervals' = n_intervals + 1
    /\ UNCHANGED <<planilha, hoje, bases, pathname, value, data, store, options,
                   n_clicks, n_limpar, download,
                   menu, moeda>>

\* somebody edits one sheet of the spreadsheet
EditarPlanilha(sheet) ==
    /\ planilha[sheet] # PlanilhaEditada[sheet]
    /\ planilha' = [planilha EXCEPT ![sheet] = PlanilhaEditada[sheet]]
    /\ UNCHANGED <<hoje, bases, n_intervals, pathname, value, data, store,
                   options, n_clicks, n_limpar, download,
                   menu, moeda>>

\* midnight
PassarDia ==
    /\ Ordinal(hoje) - Ordinal(HojeInicial) < MaxDias
    /\ hoje' = DiaSeguinte(hoje)
    /\ UNCHANGED <<planilha, bases, n_intervals, pathname, value, data, store,
                   options, n_clicks, n_limpar, download,
                   menu, moeda>>

Next ==
    \/ \E p \in Paginas : Navegar(p)
    \/ \E p \in Paginas : \E id \in FiltrosDaPagina(p) : \E x \in Escolhas(id) :
          AlterarFiltro(id, x)
    \/ \E por_formato \in BOOLEAN : BaixarPdf(por_formato)

\* a session of the browser against the data loaded at import
Spec == Init /\ [][Next]_vars

(***************************************************************************)
(* The start of the process, for any sheet "Consulta BI": the import of    *)
(* statusdoprocesso.py runs df_status = carregar_dados_status().           *)
(***************************************************************************)
\* the suffix pandas gives the k-th repetition of a column name
SufixoPandas(k) == IF k = 0 THEN "" ELSE "." \o IntStr(k)

ColsCsvStatusDe(g) ==
    <<"Linha", "Processo", "Requisitante", "Objeto", "Modalidade">>
        \o Concat([k \in 1..g |->
               [j \in 1..4 |-> ColsMov[j] \o SufixoPandas(k - 1)]])

\* the sheet with n rows and g movement groups; fix[i] says which fixed cells
\* row i has (0 none, 1 the process, 2 all), mov[i][k] whether row i has a
\* movement in group k; every cell names its row and its group
SheetStatusDe(n, g, fix, mov) ==
    [cols |-> ColsCsvStatusDe(g),
     linhas |->
        [i \in 1..n |->
            [c \in Range(ColsCsvStatusDe(g)) |->
                CASE c = "Linha" -> IF fix[i] = 2 THEN IntStr(i) ELSE NaN
                  [] c = "Processo" -> IF fix[i] >= 1 THEN "P" \o IntStr(i) ELSE NaN
                  [] c = "Requisitante" -> IF fix[i] = 2 THEN "R" \o IntStr(i) ELSE NaN
                  [] c = "Objeto" -> IF fix[i] = 2 THEN "O" \o IntStr(i) ELSE NaN
                  [] c = "Modalidade" -> IF fix[i] = 2 THEN "M" \o IntStr(i) ELSE NaN
                  [] OTHER ->
                        LET k == CHOOSE k \in 1..g :
                                     \E j \in 1..4 : c = ColsMov[j] \o SufixoPandas(k - 1)
                            j == CHOOSE j \in 1..4 : c = ColsMov[j] \o SufixoPandas(k - 1)
                        IN  IF ~mov[i][k] THEN NaN
                            ELSE CASE j = 1 -> Dig2(i) \o "/" \o Dig2(k) \o "/2026"
                                   [] j = 2 -> "E"
                                   [] j = 3 -> "D" \o IntStr(i) \o IntStr(k)
                                   [] j = 4 -> "A" \o IntStr(i) \o IntStr(k)]]]

InitCarga ==
    /\ \E n \in 0..MaxLinhasCsv, g \in 1..MaxGrupos :
         \E fix \in [1..n -> 0..2], mov \in [1..n -> [1..g -> BOOLEAN]] :
            planilha = [PlanilhaInicial EXCEPT
                           !["Consulta BI"] = SheetStatusDe(n, g, fix, mov)]
    /\ hoje = HojeInicial
    /\ importados = {}
    /\ df_contratos_base = <<>>
    /\ df_status = <<>>
    /\ df_portarias_base = <<>>
    /\ lista_servidores_unicos = {}
    /\ df_limite_pdm_base = <<>>
    /\ df_extrato_base = <<>>
    /\ n_intervals = 0
    /\ pathname = "/"
    /\ value = <<>>
    /\ data = <<>>
    /\ store = Nada
    /\ options = <<>>
    /\ n_clicks = 0
    /\ n_limpar = 0
    /\ download = Nada
    /\ menu = <<>>
    /\ moeda = SemChamada

\* import pages.statusdoprocesso
ImportarStatus ==
    /\ "statusdoprocesso" \notin importados
    /\ importados' = importados \cup {"statusdoprocesso"}
    /\ df_status' = carregar_dados_status(planilha["Consulta BI"])
    /\ UNCHANGED <<planilha, hoje, df_contratos_base, df_portarias_base,
                   lista_servidores_unicos, df_limite_pdm_base, df_extrato_base,
                   n_intervals, pathname, value, data, store, options, n_clicks,
                   n_limpar, download,
                   menu, moeda>>

NextCarga == ImportarStatus

SpecCarga == InitCarga /\ [][NextCarga]_vars

(***************************************************************************)
(* The money helpers of extrato_contrato.py, called on their own: an       *)
(* amount is formatted and the text converted back, or a text that is no   *)
(* amount is converted.                                                    *)
(***************************************************************************)
\* the whole reais of the amounts of the model: below and above a thousand
\* and a million
ReaisDoModelo ==
    {m * 1000000 + k * 1000 + u :
        m \in 0..MaxMilhoes, k \in {0, 1, 65, 999}, u \in {0, 1, 12, 492, 999}}

\* the amounts of the model, in cents: zero, positive and negative
ValoresDoModelo ==
    {sinal * (r * 100 + c) :
        sinal \in {1, -1}, r \in ReaisDoModelo, c \in {0, 1, 11, 50, 99}}

\* cells that are no amount; None is a cell that is no text
TextosSemValor == {"", "-", " ", " - ", "abc", "R$", "R$ -", "1,2,3", "12a", None}

InitMoeda ==
    /\ planilha = PlanilhaInicial
    /\ hoje = HojeInicial
    /\ importados = {}
    /\ df_contratos_base = <<>>
    /\ df_status = <<>>
    /\ df_portarias_base = <<>>
    /\ lista_servidores_unicos = {}
    /\ df_limite_pdm_base = <<>>
    /\ df_extrato_base = <<>>
    /\ n_intervals = 0
    /\ pathname = "/"
    /\ value = <<>>
    /\ data = <<>>
    /\ store = Nada
    /\ options = <<>>
    /\ n_clicks = 0
    /\ n_limpar = 0
    /\ download = Nada
    /\ menu = <<>>
    /\ \/ \E x \in {Algum(c) : c \in ValoresDoModelo} \cup {Nada} :
             moeda = [de |-> "v", fase |-> "v", v |-> x, texto |-> "", volta |-> Nada]
       \/ \E t \in TextosSemValor :
             moeda = [de |-> "texto", fase |-> "texto", v |-> Nada, texto |-> t,
                      volta |-> Nada]

\* formatar_moeda(v) is called
FormatarMoeda ==
    /\ moeda.fase = "v"
    /\ moeda' = [moeda EXCEPT !.fase = "texto", !.texto = formatar_moeda(moeda.v)]
    /\ UNCHANGED <<planilha, hoje, bases, n_intervals, pathname, value, data, store,
                   options, n_clicks, n_limpar, download, menu>>

\* conv_moeda_br is called with the text
ConverterMoeda ==
    /\ moeda.fase = "texto"
    /\ moeda' = [moeda EXCEPT !.fase = "volta", !.volta = conv_moeda_br(moeda.texto)]
    /\ UNCHANGED <<planilha, hoje, bases, n_intervals, pathname, value, data, store,
                   options, n_clicks, n_limpar, download, menu>>

NextMoeda == FormatarMoeda \/ ConverterMoeda

SpecMoeda == InitMoeda /\ [][NextMoeda]_vars

\* a session in which the browser opens any path: a registered page, a link
\* of the menu, or the root
NextMenu ==
    \/ \E p \in Caminhos : Navegar(p)
    \/ \E p \in Paginas : \E id \in FiltrosDaPagina(p) : \E x \in Escolhas(id) :
          AlterarFiltro(id, x)

SpecMenu == Init /\ [][NextMenu]_vars

\* a session in which the filters are also cleared with the button
NextLimpar ==
    \/ \E p \in Paginas : Navegar(p)
    \/ \E p \in Paginas : \E id \in FiltrosDaPagina(p) : \E x \in Escolhas(id) :
          AlterarFiltro(id, x)
    \/ LimparFiltros

SpecLimpar == Init /\ [][NextLimpar]_vars

NextAtualizacao ==
    \/ \E p \in Paginas : Navegar(p)
    \/ \E por_formato \in BOOLEAN : BaixarPdf(por_formato)
    \/ Tick
    \/ \E sheet \in Sheets : EditarPlanilha(sheet)
    \/ PassarDia

\* the process as time passes: the timer ticks, the sheets are edited, days
\* pass, pages are opened and reports downloaded
SpecAtualizacao == Init /\ [][NextAtualizacao]_vars

(***************************************************************************)
(* The claims.                                                             *)
(***************************************************************************)
\* the movement groups of the sheet: the suffixes k whose four columns are
\* all in the CSV
GruposNoCsv(csv) ==
    {k \in 0..Len(csv.cols) :
        \A j \in 1..4 : ColsMov[j] \o SufixoPandas(k) \in Range(csv.cols)}

\* the pairs (source row i, group k) in the order group, then row
ParesLinhaGrupo(csv) ==
    LET n == Len(csv.linhas) IN
    [p \in 1..(n * Cardinality(GruposNoCsv(csv))) |->
        [i |-> ((p - 1) % n) + 1, k |-> (p - 1) \div n]]

\* every cell of source row i and of its group k is empty
ParVazio(csv, par) ==
    /\ \A c \in Range(col_fixas) \cap Range(csv.cols) : IsNa(csv.linhas[par.i][c])
    /\ \A j \in 1..4 : IsNa(csv.linhas[par.i][ColsMov[j] \o SufixoPandas(par.k)])

\* a text cell of the frame carries the cell raw of the sheet
CarregaTexto(cel, raw) == IF IsNa(raw) THEN IsNa(cel) ELSE cel = raw

\* a date cell of the frame carries the dd/mm/yyyy text raw of the sheet
CarregaData(cel, raw) == IF IsNa(raw) THEN cel = NaT ELSE Strftime(cel) = raw

\* the row of the frame carries the fixed cells of source row par.i and the
\* four cells of group par.k, and nothing else
CarregaPar(row, csv, par) ==
    LET r == csv.linhas[par.i]
        suf == SufixoPandas(par.k)
    IN  /\ row["Linha"] = PyStr(r["Linha"])
        /\ \A c \in {"Processo", "Requisitante", "Objeto", "Modalidade"} :
              CarregaTexto(row[c], r[c])
        /\ CarregaData(row["Data Mov"], r["Data Mov" \o suf])
        /\ \A c \in {"E/S", "Depto", "Acao"} : CarregaTexto(row[c], r[c \o suf])

PaginasComFiltros ==
    {"/contratos", "/statusdoprocesso", "/portarias_planejamento",
     "/fracionamento_pdm"}

\* the base frame of page p, and the column that names its records
BaseDaPagina(p) ==
    CASE p = "/contratos" -> df_contratos_base
      [] p = "/statusdoprocesso" -> df_status
      [] p = "/portarias_planejamento" -> df_portarias_base
      [] p = "/fracionamento_pdm" -> df_limite_pdm_base

ChaveDaPagina(p) ==
    CASE p = "/contratos" -> "Contrato"
      [] p = "/statusdoprocesso" -> "Processo"
      [] p = "/portarias_planejamento" -> "N/ANO da Portaria"
      [] p = "/fracionamento_pdm" -> "PDM"

\* the records the page shows: the filtered frame the callback put in the
\* store, or the table of processes on the status page
LinhasMostradas(p) ==
    IF p = "/statusdoprocesso" THEN data["tabela_status_esquerda"] ELSE store[1]

\* the records of a frame, by their key
Chaves(df, col) == {Json(df[i][col]) : i \in 1..Len(df)}

\* every input of the page but id has its initial value
SoEsseFiltro(id) == \A i \in DOMAIN value \ {id} : value[i] = ValorInicial(i)

\* C1: on every page with filters the table data is the result of applying the
\* current values of all filter inputs to the base frame, whatever was typed
\* or selected before.
CE_C1_TabelaDosFiltrosAtuais ==
    pathname \in PaginasComFiltros => data = DataFiltro(pathname, value)

FiltrosTexto ==
    {[pagina |-> "/contratos", id |-> "filtro_contrato_texto", col |-> "Contrato"],
     [pagina |-> "/contratos", id |-> "filtro_setor_texto_ct", col |-> "Setor"],
     [pagina |-> "/contratos", id |-> "filtro_empresa_texto",
      col |-> "Empresa Contratada"],
     [pagina |-> "/statusdoprocesso", id |-> "filtro_processo_texto",
      col |-> "Processo"],
     [pagina |-> "/fracionamento_pdm", id |-> "filtro_pdm_texto_itajuba",
      col |-> "PDM"],
     [pagina |-> "/portarias_planejamento", id |-> "filtro_setor_texto_planej",
      col |-> "Setor de Origem"],
     [pagina |-> "/portarias_planejamento", id |-> "filtro_servidor_texto_planej",
      col |-> "Servidores"]}

\* the cell has a value, and the value contains the typed text, trimmed, as a
\* literal substring whatever the case
ContemLiteral(cel, texto) ==
    ~IsNa(cel) /\ Contem(Lower(cel), Lower(Strip(texto)))

\* C4: a text filter keeps exactly the rows whose column value contains the
\* typed text, trimmed, as a case-insensitive literal substring, whatever the
\* characters of the text; an empty or whitespace-only text keeps every row.
CE_C4_FiltroTextoLiteral ==
    \A f \in FiltrosTexto :
        pathname = f.pagina =>
            LET x == value[f.id]
                base == BaseDaPagina(pathname)
                chave == ChaveDaPagina(pathname)
                vazio == x = None \/ Strip(x) = ""
                esperadas == IF vazio THEN base
                             ELSE Filtrar(base, LAMBDA r : ContemLiteral(r[f.col], x))
            IN  /\ vazio \/ \A i \in 1..Len(LinhasMostradas(pathname)) :
                      ContemLiteral(LinhasMostradas(pathname)[i][f.col], x)
                /\ SoEsseFiltro(f.id) =>
                      Chaves(LinhasMostradas(pathname), chave) = Chaves(esperadas, chave)

FiltrosDropdown ==
    {[pagina |-> "/contratos", id |-> "filtro_contrato_dropdown", col |-> "Contrato"],
     [pagina |-> "/contratos", id |-> "filtro_setor_dropdown_ct", col |-> "Setor"],
     [pagina |-> "/contratos", id |-> "filtro_grupo", col |-> "Grupo"],
     [pagina |-> "/contratos", id |-> "filtro_empresa", col |-> "Empresa Contratada"],
     [pagina |-> "/contratos", id |-> "filtro_status_vig",
      col |-> "Status da Vigencia"],
     [pagina |-> "/statusdoprocesso", id |-> "filtro_processo", col |-> "Processo"],
     [pagina |-> "/statusdoprocesso", id |-> "filtro_requisitante",
      col |-> "Requisitante"],
     [pagina |-> "/statusdoprocesso", id |-> "filtro_objeto", col |-> "Objeto"],
     [pagina |-> "/statusdoprocesso", id |-> "filtro_modalidade",
      col |-> "Modalidade"],
     [pagina |-> "/portarias_planejamento", id |-> "filtro_setor_dropdown_planej",
      col |-> "Setor de Origem"],
     [pagina |-> "/portarias_planejamento", id |-> "filtro_tipo_planej",
      col |-> "TIPO"]}

\* the named members of a portaria: the cells of its columns "1" .. "15"
Membros(row) == {row[c] : c \in {IntStr(i) : i \in 1..15} \cap DOMAIN row}

\* C5: with an option selected in a single-select dropdown the page keeps
\* exactly the rows whose field equals the option; with servidor S selected on
\* the portarias page it keeps exactly the rows that name S as a member.
CE_C5_DropdownExato ==
    /\ \A f \in FiltrosDropdown :
          (pathname = f.pagina /\ value[f.id] \notin {None, "", "TODOS"}) =>
             /\ \A i \in 1..Len(LinhasMostradas(pathname)) :
                   LinhasMostradas(pathname)[i][f.col] = value[f.id]
             /\ SoEsseFiltro(f.id) =>
                   Chaves(LinhasMostradas(pathname), ChaveDaPagina(pathname)) =
                   Chaves(Filtrar(BaseDaPagina(pathname),
                                  LAMBDA r : r[f.col] = value[f.id]),
                          ChaveDaPagina(pathname))
    /\ (/\ pathname = "/portarias_planejamento"
        /\ value["filtro_servidor_dropdown_planej"] \notin {None, ""}) =>
          LET S == value["filtro_servidor_dropdown_planej"] IN
          /\ \A i \in 1..Len(store[1]) : S \in Membros(store[1][i])
          /\ SoEsseFiltro("filtro_servidor_dropdown_planej") =>
                Chaves(store[1], "N/ANO da Portaria") =
                Chaves(Filtrar(df_portarias_base, LAMBDA r : S \in Membros(r)),
                       "N/ANO da Portaria")

\* C6: the PDM table shows exactly the base rows whose PDM is in the selected
\* list and contains the typed text; an empty list, or None, restricts nothing.
CE_C6_ListaETexto ==
    pathname = "/fracionamento_pdm" =>
        LET x == value["filtro_pdm_texto_itajuba"]
            lista == value["filtro_pdm_dropdown_itajuba"]
            esperadas == Filtrar(df_limite_pdm_base, LAMBDA r :
                /\ lista = Nada \/ lista[1] = <<>> \/ r["PDM"] \in Range(lista[1])
                /\ x = None \/ Strip(x) = "" \/ ContemLiteral(r["PDM"], x))
        IN  Map(data["tabela_limite_itajuba_pdm"], LAMBDA r : r["PDM"])
                = Map(esperadas, LAMBDA r : r["PDM"])


\* a click on "Baixar Relatorio PDF" of page p has just produced a document
PdfGerado(p) ==
    /\ pathname = p /\ pathname' = p
    /\ n_clicks' = n_clicks + 1
    /\ download' # Nada

\* the text the PDF prints for the table cell x
TextoPdf(x) == PyStr(x)

\* row i of the PDF of the contratos page is the record of row i on screen
MesmoContrato(pdf, tela) ==
    /\ \A c \in Range(ColsPdfContratos) \ {"Contrato"} : pdf[c] = TextoPdf(tela[c])
    /\ \/ tela["Contrato_markdown"] = pdf["Contrato"]
       \/ StartsWith(tela["Contrato_markdown"], "[" \o pdf["Contrato"] \o "](")
       \/ tela["Contrato_markdown"] = "" /\ pdf["Contrato"] = PyStr(None)

\* row i of the PDF of the portarias page is the record of row i on screen
MesmaPortaria(pdf, tela) ==
    /\ \A c \in Range(ColsPdfPortarias) \ {NOME_COL_LINK_ORIGINAL} :
          pdf[c] = TextoPdf(tela[c])
    /\ tela["Link_markdown"] = formatar_link(pdf[NOME_COL_LINK_ORIGINAL])

\* row i of the PDF of the PDM page is the record of row i on screen
MesmoPdm(pdf, tela) ==
    /\ pdf["PDM"] = TextoPdf(tela["PDM"])
    /\ pdf["Descricao"] = TextoPdf(tela["Descricao"])
    /\ \A c \in ColsMoedaPdm : pdf[c] = tela[c \o "_fmt"]

\* the document has one table row for each row on screen, for the same
\* records in the same order, and prints their number as its total
Espelha(pdf, tela, Mesmo(_, _)) ==
    /\ pdf.total = Len(tela)
    /\ Len(pdf.linhas) = Len(tela)
    /\ \A i \in 1..Len(tela) : Mesmo(pdf.linhas[i], tela[i])

\* C2: on the contratos, portarias and PDM pages a PDF generated after the
\* filter callback has completed has exactly one table row for each row on
\* screen, for the same records in the same order, and its "Total de
\* registros" is the number of rows on screen.
Thm_C2_PdfEspelhaTabela ==
    [][/\ PdfGerado("/contratos") =>
             Espelha(download'[1], data'["tabela_contratos"], MesmoContrato)
       /\ PdfGerado("/portarias_planejamento") =>
             Espelha(download'[1], data'["tabela_portarias_planej"], MesmaPortaria)
       /\ PdfGerado("/fracionamento_pdm") =>
             Espelha(download'[1], data'["tabela_limite_itajuba_pdm"], MesmoPdm)]_vars

Wit_C2_PdfEspelhaTabela ==
    /\ pathname = "/portarias_planejamento"
    /\ value["filtro_servidor_dropdown_planej"] = "Bia"
    /\ n_clicks = 1
    /\ download # Nada
    /\ download[1].total = 1
    /\ Len(data["tabela_portarias_planej"]) = 1
    /\ Len(df_portarias_base) > 1

\* C8: the "DADOS DO PROCESSO" table of the PDF lists the processes of the
\* "Dados do Processo" table on screen, one row each, each with the Linha,
\* Requisitante, Objeto and Modalidade shown on screen, also for a process
\* with no movement that has an action.
CE_C8_DadosDoProcesso ==
    [][PdfGerado("/statusdoprocesso") =>
          LET pdf == download'[1].esquerda
              tela == data'["tabela_status_esquerda"]
          IN  /\ Len(pdf) = Len(tela)
              /\ \A i \in 1..Len(tela) : \E j \in 1..Len(pdf) :
                    \A c \in Range(ColsEsq) : pdf[j][c] = CelPdfStatus(tela[i][c])
              /\ \A j \in 1..Len(pdf) : \E i \in 1..Len(tela) :
                    pdf[j]["Processo"] = CelPdfStatus(tela[i]["Processo"])]_vars

\* C9: row i of the "MOVIMENTACOES" table of the PDF has the "Data Mov" of
\* row i of the movements on screen, for every date, also one whose day is
\* 12 or less.
CE_C9_DataMov ==
    [][PdfGerado("/statusdoprocesso") =>
          Map(download'[1].direita, LAMBDA r : r["Data Mov"])
              = Map(data'["tabela_status_direita"], LAMBDA r : r["Data Mov"])]_vars


\* the document of the extrato page is built from the row the screen shows:
\* the contract number, the name of the file, the teams and the evolution
PdfDaLinhaDaTela(pdf, tela) ==
    /\ pdf.num_contrato = tela["valor_numero_contrato"]
    /\ pdf.filename = "Extrato_" \o tela["valor_numero_contrato"] \o ".pdf"
    /\ Len(pdf.fiscalizacao) = Len(tela["tabela_extrato_fiscalizacao"])
    /\ \A l \in 1..Len(pdf.fiscalizacao) :
          pdf.fiscalizacao[l] = tela["tabela_extrato_fiscalizacao"][l]
    /\ Len(pdf.evolucao) = Len(tela["tabela_extrato_evolucao"])
    /\ \A i \in 1..Len(pdf.evolucao) :
          LET p == pdf.evolucao[i]
              t == tela["tabela_extrato_evolucao"][i]
          IN  /\ \A c \in {"Alteracao", "Tipo", "Vigencia"} :
                    p[c] = wrap_data(t[c])
              /\ \A c \in {"Valor", "Valor Atualizado"} :
                    p[c] = wrap_data(t[c \o "_fmt"])

\* the first row of the base whose Contrato contains the typed text
PrimeiraLinhaQueContem(texto) ==
    Filtrar(df_extrato_base, LAMBDA r : ContemLiteral(r["Contrato"], texto))

\* C10: for any contract text the PDF of the extrato page is built from the
\* row the screen shows, the first row of the base whose Contrato contains the
\* text, with the same teams and the same evolution rows in the same order,
\* and the file is named Extrato_<contract number of that row>.pdf.
CE_C10_ExtratoMesmaLinha ==
    [][PdfGerado("/extrato-contrato") =>
          LET texto == value'["filtro_contrato_extrato"]
              linhas == PrimeiraLinhaQueContem(texto)
          IN  /\ PdfDaLinhaDaTela(download'[1], data')
              /\ linhas # <<>>
              /\ download'[1].num_contrato = linhas[1]["Contrato"]
              /\ download'[1].filename
                    = "Extrato_" \o linhas[1]["Contrato"] \o ".pdf"]_vars

\* the base frames are what the loaders return for spreadsheet pl on day dia
BasesDe(pl, dia) ==
    [contratos |-> carregar_dados_contratos(pl["Grupo da Cont."], dia),
     status |-> carregar_dados_status(pl["Consulta BI"]),
     portarias |-> carregar_dados_portarias(pl["Check List"]),
     pdm |-> carregar_dados_limite_pdm(pl["Limite de Gasto - Itajuba"]),
     extrato |-> carregar_dados_extrato(pl["BI Extrato"])]

\* C3: after each tick of the timer "interval-atualizacao" the base of every
\* page has been read again from its spreadsheet, so that an edit of the
\* spreadsheet, or a new day, shows in the tables without a restart.
CE_C3_IngestaoPeriodica ==
    [][n_intervals' # n_intervals =>
          [contratos |-> df_contratos_base', status |-> df_status',
           portarias |-> df_portarias_base', pdm |-> df_limite_pdm_base',
           extrato |-> df_extrato_base'] = BasesDe(planilha', hoje')]_vars


\* the data the PDF callback of the page reads is missing or empty: the store
\* st is None or [], or, on the extrato page, the filter is empty or no
\* contract of the base contains it
SemDadosParaPdf(p, v, st) ==
    IF p = "/extrato-contrato"
    THEN LET texto == v["filtro_contrato_extrato"] IN
         \/ texto = None \/ texto = ""
         \/ PrimeiraLinhaQueContem(texto) = <<>>
    ELSE st = Nada \/ st[1] = <<>>

\* the click counts and the stores a PDF callback can be called with
CliquesPossiveis == {Nada, Algum(0), Algum(1)}
StoresPossiveis == {Nada, Algum(<<>>), store}

\* C11: a PDF callback called with click count 0 or None, or with missing or
\* empty filtered data (on the extrato page: an empty filter, or no contract
\* matching it) returns no download and raises no error.
CE_C11_PdfSemDados ==
    pathname \in Paginas =>
        \A n \in CliquesPossiveis, st \in StoresPossiveis, por_formato \in BOOLEAN :
            (SemClique(n) \/ SemDadosParaPdf(pathname, value, st)) =>
                /\ ~ErroPdf(pathname, n, value)
                /\ RetornoPdf(pathname, n, value, st, por_formato) = Nada


\* the nine outputs of the extrato page are empty: no table has a row, the
\* fiscalizacao table has no column and no contract number is shown
ExtratoVazio(saidas) ==
    /\ \A o \in SaidasExtrato \ {"valor_numero_contrato"} : saidas[o] = <<>>
    /\ saidas["valor_numero_contrato"] = ""

\* the contract filter is missing: None, empty or only whitespace
FiltroAusente(texto) == texto = None \/ Strip(texto) = ""

\* C12: when the contract filter is None, empty or only whitespace, or no
\* contract matches it, the extrato page has empty data in its seven tables,
\* no fiscalizacao column and an empty contract number: it shows the data of
\* no contract.
CE_C12_ExtratoSemFiltro ==
    pathname = "/extrato-contrato" =>
        LET texto == value["filtro_contrato_extrato"] IN
        (FiltroAusente(texto) \/ PrimeiraLinhaQueContem(texto) = <<>>) =>
            ExtratoVazio(data)


\* the values the filter inputs of page p have when the page is loaded
ValoresIniciais(p) == [id \in FiltrosDaPagina(p) |-> ValorInicial(id)]

\* the value "Limpar filtros" gives input id: None for a text input or a
\* single dropdown, [] for the list of PDMs, "TODOS" for the type of
\* portaria, "" for the contract of the extrato page
ValorDepoisDeLimpar(id) ==
    CASE id = "filtro_pdm_dropdown_itajuba" -> Algum(<<>>)
      [] id = "filtro_tipo_planej" -> "TODOS"
      [] id = "filtro_contrato_extrato" -> ""
      [] OTHER -> None

\* C13: a click on "Limpar filtros" sets every filter input of the page to
\* its initial value, and once the filter callback it triggers has run the
\* tables show the rows of the initial page load, whatever was set before.
Thm_C13_LimparFiltros ==
    [][n_limpar' = n_limpar + 1 =>
          /\ \A id \in DOMAIN value' : value'[id] = ValorDepoisDeLimpar(id)
          /\ data' = DataFiltro(pathname', ValoresIniciais(pathname'))]_vars

\* the button was clicked on the contratos page: every input is None and the
\* table shows every row of the base
Wit_C13_LimparFiltros ==
    /\ pathname = "/contratos"
    /\ n_limpar = 1
    /\ \A id \in DOMAIN value : value[id] = None
    /\ Len(data["tabela_contratos"]) = Len(df_contratos_base)
    /\ Len(df_contratos_base) > 1


\* the pages whose PDF is made from the dcc.Store, and the table of each
PaginasComStore == {"/contratos", "/portarias_planejamento", "/fracionamento_pdm"}

TabelaDaPagina(p) ==
    CASE p = "/contratos" -> "tabela_contratos"
      [] p = "/portarias_planejamento" -> "tabela_portarias_planej"
      [] p = "/fracionamento_pdm" -> "tabela_limite_itajuba_pdm"

\* row tela of the table of page p and row guardada of its store are the
\* same record: the columns of the table have the values of the store
MesmoRegistro(p, tela, guardada) ==
    CASE p = "/contratos" ->
            \A c \in Range(ColsTabelaContratos) : tela[c] = guardada[c]
      [] p = "/portarias_planejamento" ->
            /\ \A c \in Range(ColsTabelaPortarias) \ {"Link_markdown"} :
                  tela[c] = guardada[c]
            /\ tela["Link_markdown"] = formatar_link(guardada[NOME_COL_LINK_ORIGINAL])
      [] p = "/fracionamento_pdm" ->
            /\ tela["PDM"] = guardada["PDM"]
            /\ tela["Descricao"] = guardada["Descricao"]
            /\ \A c \in ColsMoedaPdm : tela[c \o "_fmt"] = fmt_moeda(guardada[c])

\* C14: on the contratos, portarias and PDM pages the table and the store
\* hold the same records in the same order, both the result of one run of
\* the filter callback; the store never holds the result of other filter
\* values than the table.
Thm_C14_TabelaEStore ==
    /\ [](pathname \in PaginasComStore =>
            LET tabela == data[TabelaDaPagina(pathname)] IN
            /\ store # Nada
            /\ Len(store[1]) = Len(tabela)
            /\ \A i \in 1..Len(tabela) :
                  MesmoRegistro(pathname, tabela[i], store[1][i]))
    /\ [][(pathname' \in PaginasComStore /\ (data' # data \/ store' # store)) =>
             /\ data' = DataFiltro(pathname', value')
             /\ store' = StoreFiltro(pathname', value')]_vars

\* the PDM page with two PDMs selected: table and store have the two rows
Wit_C14_TabelaEStore ==
    /\ pathname = "/fracionamento_pdm"
    /\ value["filtro_pdm_dropdown_itajuba"] = Algum(<<"56789", "00012">>)
    /\ Len(data["tabela_limite_itajuba_pdm"]) = 2
    /\ Len(store[1]) = 2
    /\ Len(df_limite_pdm_base) > 2


\* the text typed in filtro_pdm_texto_itajuba, trimmed and in lower case, or
\* "" when there is none
TextoPdmDigitado(v) ==
    LET x == v["filtro_pdm_texto_itajuba"]
    IN  IF x = None THEN "" ELSE Lower(Strip(x))

\* the known PDMs that contain the text t
PdmsCom(t) ==
    {c \in pdms_unicos(df_limite_pdm_base) :
        \E i \in 1..(Len(c) - Len(t) + 1) : SubSeq(c, i, i + Len(t) - 1) = t}

\* C15: on the PDM page every selected PDM is among the options of the
\* dropdown; the options are sorted and have no duplicates; with no text
\* they are all known PDMs, and a change of the text makes them the known
\* PDMs containing the text plus the PDMs selected at that moment.
Thm_C15_OpcoesPdm ==
    /\ [](pathname = "/fracionamento_pdm" =>
            /\ Escolhidos(value["filtro_pdm_dropdown_itajuba"]) \subseteq Range(options)
            /\ \A i, j \in 1..Len(options) :
                  i < j => MenorTexto(options[i], options[j])
            /\ Range(options) \subseteq pdms_unicos(df_limite_pdm_base)
            /\ PdmsCom(TextoPdmDigitado(value)) \subseteq Range(options)
            /\ TextoPdmDigitado(value) = "" =>
                  Range(options) = pdms_unicos(df_limite_pdm_base))
    /\ [][(/\ pathname = "/fracionamento_pdm"
           /\ pathname' = pathname
           /\ TextoPdmDigitado(value') # ""
           /\ value'["filtro_pdm_texto_itajuba"] # value["filtro_pdm_texto_itajuba"])
          => Range(options') =
                PdmsCom(TextoPdmDigitado(value'))
                   \cup Escolhidos(value["filtro_pdm_dropdown_itajuba"])]_vars

\* "12" is typed with 56789 and 00012 selected: 56789 stays an option
Wit_C15_OpcoesPdm ==
    /\ pathname = "/fracionamento_pdm"
    /\ value["filtro_pdm_texto_itajuba"] = "12"
    /\ value["filtro_pdm_dropdown_itajuba"] = Algum(<<"56789", "00012">>)
    /\ "56789" \in Range(options)
    /\ "56789" \notin PdmsCom("12")
    /\ Len(options) < Cardinality(pdms_unicos(df_limite_pdm_base))


\* a text of exactly five decimal digits
CincoDigitos(s) == Len(s) = 5 /\ IsDigits(s)

\* C16: every PDM of the frame loaded by carregar_dados_limite_pdm is a
\* text of exactly 5 decimal digits, whatever the cell of the sheet was, and
\* so is every entry of the list of the PDM dropdown.
CE_C16_PdmCincoDigitos ==
    /\ \A i \in 1..Len(df_limite_pdm_base) : CincoDigitos(df_limite_pdm_base[i]["PDM"])
    /\ \A i \in 1..Len(PDMS_UNICOS) : CincoDigitos(PDMS_UNICOS[i])


\* the three amounts of row r of the PDM frame or of its store
Valores(r) == [c \in ColsMoedaPdm |-> r[c]]

\* C17: every row of the PDM frame has the limit R$ 65.492,11 and the
\* balance limit - committed, in cents (no balance when nothing readable was
\* committed); the balance is negative exactly when the committed amount is
\* above the limit; and every row the filters let through has the three
\* amounts of its row of the frame.
Thm_C17_SaldoDaDispensa ==
    /\ \A i \in 1..Len(df_limite_pdm_base) :
          LET r == df_limite_pdm_base[i]
              empenhado == r["Valor Empenhado"]
              saldo == r["Saldo para contratacao"]
          IN  /\ r["Limite da Dispensa"] = Algum(6549211)
              /\ empenhado = Nada => saldo = Nada
              /\ empenhado # Nada =>
                    /\ saldo = Algum(6549211 - empenhado[1])
                    /\ saldo[1] < 0 <=> empenhado[1] > 6549211
    /\ pathname = "/fracionamento_pdm" =>
          \A k \in 1..Len(store[1]) :
              \E i \in 1..Len(df_limite_pdm_base) :
                  /\ df_limite_pdm_base[i]["PDM"] = store[1][k]["PDM"]
                  /\ Valores(df_limite_pdm_base[i]) = Valores(store[1][k])
                  /\ \A c \in ColsMoedaPdm :
                        data["tabela_limite_itajuba_pdm"][k][c \o "_fmt"]
                           = fmt_moeda(df_limite_pdm_base[i][c])

\* the filters let through the row of PDM 56789, which has more committed
\* than the limit, and not the whole frame
Wit_C17_SaldoDaDispensa ==
    /\ pathname = "/fracionamento_pdm"
    /\ Len(store[1]) < Len(df_limite_pdm_base)
    /\ \E k \in 1..Len(store[1]) :
          /\ store[1][k]["PDM"] = "56789"
          /\ store[1][k]["Valor Empenhado"] = Algum(7000000)
          /\ store[1][k]["Saldo para contratacao"] = Algum(-450789)
          /\ data["tabela_limite_itajuba_pdm"][k]["Saldo para contratacao_fmt"]
                = "R$ -4.507,89"


\* the rows the table of the portarias page shows
LinhasPortarias == data["tabela_portarias_planej"]

\* every filter of the portarias page but the type is empty
SoOTipo ==
    \A id \in DOMAIN value : id # "filtro_tipo_planej" => value[id] = None

LinhaDoContrato(num) ==
    Filtrar(df_extrato_base, LAMBDA r : PyStr(r["Contrato"]) = num)[1]

\* the teams (0..9) of the row with data in one of their four cells, in
\* ascending order
EquipesPreenchidas(row) ==
    SelectSeq([i \in 1..10 |-> i - 1], LAMBDA i :
        LET d == gerar_grupo_fiscalizacao_otimizado(row, i)
        IN  \/ TemTexto(d.fiscalizacao_titular) \/ TemTexto(d.servidor_titular)
            \/ TemTexto(d.fiscalizacao_substituto) \/ TemTexto(d.servidor_substituto))

\* C19: the columns of the fiscalizacao table on screen, and of the one in
\* the PDF, are the teams of the contract with data in at least one of their
\* four cells, in ascending order; a team whose four cells are all missing
\* or blank is not shown.
CE_C19_EquipesComDados ==
    pathname = "/extrato-contrato" =>
        /\ data["valor_numero_contrato"] # "" =>
              LET row == LinhaDoContrato(data["valor_numero_contrato"])
                  eq == EquipesPreenchidas(row)
              IN  /\ Len(data["tabela_extrato_fiscalizacao.columns"]) = Len(eq)
                  /\ \A k \in 1..Len(eq) :
                        data["tabela_extrato_fiscalizacao"][1][k] =
                            LET d == gerar_grupo_fiscalizacao_otimizado(row, eq[k])
                            IN  formatar_fiscalizacao_para_html(
                                    d.fiscalizacao_titular, d.servidor_titular)
        /\ download # Nada =>
              LET row == LinhaDoContrato(download[1].num_contrato)
                  eq == EquipesPreenchidas(row)
              IN  IF eq = <<>> THEN download[1].fiscalizacao = <<>>
                  ELSE Len(download[1].fiscalizacao[1]) = Len(eq)


\* the columns of alteration n in the frame: its name, and the four with the
\* suffix of n - 1
ColunasDaAlteracao(n) ==
    [Alteracao |-> IntStr(n) \o "a Alteracao",
     Tipo |-> "Tipo" \o Suf(n - 1),
     Vigencia |-> "Vigencia" \o Suf(n - 1),
     Valor |-> "Valor" \o Suf(n - 1),
     ValorAtualizado |-> "Valor Atualizado" \o Suf(n - 1)]

\* one of the five fields of alteration n is present and not blank in the row
\* of the frame (an amount is present when the loader could read a number)
AlteracaoPreenchida(row, n) ==
    LET col == ColunasDaAlteracao(n) IN
    \/ \E c \in {col.Alteracao, col.Tipo, col.Vigencia} :
          c \in DOMAIN row /\ TemTexto(row[c])
    \/ \E c \in {col.Valor, col.ValorAtualizado} :
          c \in DOMAIN row /\ row[c] # Nada

\* the text the table shows for a cell of the frame; none when it is missing
TextoDaCelula(row, c) ==
    IF c \in DOMAIN row /\ TemTexto(row[c]) THEN row[c] ELSE ""

PontosNoTexto(t) == Cardinality({i \in 1..Len(t) : Ch(t, i) = "."})

\* the thousands separators of an amount of c cents
PontosDoValor(c) ==
    LET reais == (IF c < 0 THEN -c ELSE c) \div 100
    IN  IF reais >= 1000000000 THEN 3
        ELSE IF reais >= 1000000 THEN 2
        ELSE IF reais >= 1000 THEN 1 ELSE 0

LinksAtivos ==
    {i \in 1..Len(menu) : menu[i].className = "sidebar-button sidebar-button-active"}

\* the menu has the links of menu_links, in their order
MenuNaOrdem ==
    /\ Len(menu) = Len(menu_links)
    /\ \A i \in 1..Len(menu) :
          /\ menu[i].href = menu_links[i].href
          /\ menu[i].label = menu_links[i].label

\* C22: when the path is that of a page registered in the repository,
\* exactly one link of the menu is active, the one whose href is the path;
\* for any path at most one link is active, and the menu lists all links in
\* the order of menu_links.
CE_C22_MenuAtivo ==
    /\ pathname \in PaginasRegistradas =>
          \E i \in 1..Len(menu) : LinksAtivos = {i} /\ menu[i].href = pathname
    /\ Cardinality(LinksAtivos) <= 1
    /\ MenuNaOrdem

=============================================================================
